---- MODULE Spec2Model ----
(***************************************************************************)
(* Content-synchronisation pipeline of the academic website: the JSON      *)
(* Data Store (personal, publications, news, resources, activities), the   *)
(* BibTeX and HTML-extraction merges, the interactive editor, the          *)
(* validator, the metrics run and the artifact generators.                 *)
(*                                                                         *)
(* Sources: content/scripts/academic-integration.js, the editor script     *)
(* (unnamed/part_002), the generator script (unnamed/part_003) and the     *)
(* HTML sync script carried in PROJECT.md (lines 101-405).                 *)
(***************************************************************************)
EXTENDS Integers, Sequences, FiniteSets, TLC

\* today is the calendar day of the machine the scripts run on; input and
\* output hold the argument and the result of a function called on its own;
\* editor is the position of the editor process and the file it holds;
\* browser is the page the theme script runs in; watcher is the generator
\* process started in watch mode
VARIABLES dataStore, generated, lastOp, today, input, output, editor, browser,
          watcher

vars == <<dataStore, generated, lastOp, today, input, output, editor, browser,
          watcher>>

(***************************************************************************)
(* Bounds of the model.                                                    *)
(***************************************************************************)
\* longest stored publications sequence the editor and the merges may build
MaxPubs == 3
\* longest stored news sequence
MaxNews == 2
\* longest collection handed to the validator in SpecValidate
MaxValidated == 3
\* most resources the editor adds to a section
MaxResources == 1

(***************************************************************************)
(* JavaScript values.  Every field keeps one TLA+ type; the JavaScript     *)
(* values undefined, null and NaN are sentinels of that type.              *)
(***************************************************************************)
Undefined == "<undefined>"
Null == "<null>"
\* pub.authors when the key is absent from the record
AuthorsUndefined == <<Undefined>>
\* parseInt of a text that does not start with digits
NaN == -1
\* a year key that is absent from the JSON object (undefined)
YearUndefined == -2
\* a year that is null in the JSON (what JSON.stringify writes for NaN)
YearNull == -3
\* new Date().getFullYear()
CurrentYear == 2026
\* new Date().toISOString().split('T')[0]
Today == today
\* the day the model starts on, the day after it, and a day before both
FirstDay == "2026-11-04"
SecondDay == "2026-11-05"
Earlier == "2026-10-01"

\* JavaScript truthiness of a string-typed value: !v is true for these
FalsyStr(v) == v \in {Undefined, Null, ""}
\* JavaScript truthiness of a number-typed value
FalsyNum(n) == n \in {NaN, YearUndefined, YearNull, 0}

Range(s) == {s[i] : i \in 1..Len(s)}

\* bounded sequences over S
SeqsUpTo(S, n) == UNION {[1..k -> S] : k \in 0..n}

(***************************************************************************)
(* Files of the Data Store.  A file is readable JSON ("ok"), present but   *)
(* unparseable ("malformed") or absent ("missing"); doc is the parsed      *)
(* document and is read only when the file is ok.                          *)
(***************************************************************************)
File(doc) == [status |-> "ok", doc |-> doc]
MalformedFile(doc) == [status |-> "malformed", doc |-> doc]
MissingFile(doc) == [status |-> "missing", doc |-> doc]

\* JSON.parse(fs.readFileSync(path)) returns instead of throwing
Readable(f) == f.status = "ok"
\* fs.existsSync(path)
Exists(f) == f.status # "missing"

\* { ...a, ...b }: the keys of b override those of a
Spread(a, b) ==
    [k \in (DOMAIN a) \cup (DOMAIN b) |-> IF k \in DOMAIN b THEN b[k] ELSE a[k]]

(***************************************************************************)
(* Publication records.  A key that is absent from the JSON object holds   *)
(* the sentinel of its type.                                               *)
(***************************************************************************)
Pub(id, title, authors, journal, year, doi, image, abstract, type, status) ==
    [id |-> id, title |-> title, authors |-> authors, journal |-> journal,
     year |-> year, doi |-> doi, image |-> image, abstract |-> abstract,
     type |-> type, status |-> status]

\* JSON.parse(JSON.stringify(pub)): NaN is written as null, an undefined
\* value drops its key, everything else is kept
JsonPub(p) == [p EXCEPT !.year = IF p.year = NaN THEN YearNull ELSE p.year]

JsonPubs(s) == [i \in 1..Len(s) |-> JsonPub(s[i])]

\* a key that is present and holds undefined (Undefined is the absent key)
UndefinedValue == "<undefined value>"

\* JSON.parse(JSON.stringify(object)) of a record of strings: a key that
\* holds undefined is not written, so it is absent afterwards
JsonObject(o) ==
    [k \in DOMAIN o |-> IF o[k] = UndefinedValue THEN Undefined ELSE o[k]]

\* JSON.parse(JSON.stringify(data, null, 2)) of a document: of its
\* publications and of its hasCredential objects; the other values of the
\* documents are strings, integers, booleans and arrays of them and come
\* back as written
JsonDocument(data) ==
    [k \in DOMAIN data |->
        CASE k = "publications" -> JsonPubs(data[k])
          [] k = "hasCredential" ->
                 [i \in 1..Len(data[k]) |-> JsonObject(data[k][i])]
          [] OTHER -> data[k]]

\* saveData: the file then holds JSON.stringify(data, null, 2)
saveData(data) == File(JsonDocument(data))

Ids(s) == [i \in 1..Len(s) |-> s[i].id]

\* no two positions of the id sequence hold the same id
DistinctIds(s) == \A i, j \in 1..Len(s) : (s[i].id = s[j].id) => (i = j)

\* Array.prototype.find(pub => pub.id === id) returns an element
HasId(s, id) == \E i \in 1..Len(s) : s[i].id = id

(***************************************************************************)
(* BibTeX source (make_pdf/references.bib) and parseBibtexFile.  The file  *)
(* is the sequence of the entries written in it: type, key, the fields     *)
(* written as name = {value} (Undefined when absent) and whether the       *)
(* closing brace stands at the start of a line of its own.                 *)
(***************************************************************************)
BibEntry(type, key, title, author, journal, year, doi) ==
    [type |-> type, key |-> key, title |-> title, author |-> author,
     journal |-> journal, year |-> year, doi |-> doi, closing |-> "line"]

\* the same entry written on one line: @type{key, name={value}, ...}
SingleLine(e) == [e EXCEPT !.closing = "inline"]

\* fields[name] after the field regex has run over the text of the entries:
\* each name = {value} found assigns fields[name], so the last one stays
FieldOver(entries, name) ==
    LET written == {i \in 1..Len(entries) : entries[i][name] # Undefined}
    IN IF written = {} THEN Undefined
       ELSE entries[CHOOSE i \in written : \A j \in written : j <= i][name]

RECURSIVE EntryMatches(_)
\* the matches of /@(\w+)\{([^,]+),\s*([\s\S]*?)\n\}/g over the file: a match
\* starts at the first '@type{key,' not yet consumed and its content runs to
\* the first line that starts with '}', across the entries closed before
\* the end of their line; without such a line there is no further match
EntryMatches(entries) ==
    LET closed == {i \in 1..Len(entries) : entries[i].closing = "line"}
    IN IF closed = {} THEN <<>>
       ELSE LET last == CHOOSE i \in closed : \A j \in closed : i <= j
                content == SubSeq(entries, 1, last)
            IN <<[type |-> entries[1].type, key |-> entries[1].key,
                  title |-> FieldOver(content, "title"),
                  author |-> FieldOver(content, "author"),
                  journal |-> FieldOver(content, "journal"),
                  year |-> FieldOver(content, "year"),
                  doi |-> FieldOver(content, "doi"),
                  closing |-> "line"]>>
               \o EntryMatches(SubSeq(entries, last + 1, Len(entries)))

\* type.toLowerCase() over the entry types of the model
ToLowerType(t) ==
    CASE t = "Article" -> "article"
      [] t = "ARTICLE" -> "article"
      [] OTHER -> t

\* parseInt over the year texts of the model: leading digits, else NaN
ParseInt(text) ==
    CASE text = "2022" -> 2022
      [] text = "2021" -> 2021
      [] text = "2023" -> 2023
      [] text = "2024" -> 2024
      [] text = "1850" -> 1850
      [] text = "2022a" -> 2022
      [] text = "0" -> 0
      [] OTHER -> NaN

\* fields.author.split(' and ') over the author texts of the model
SplitAnd(text) ==
    CASE text = "R Korol and A Smith" -> <<"R Korol", "A Smith">>
      [] text = "A Smith and B Jones" -> <<"A Smith", "B Jones">>
      [] OTHER -> <<text>>

\* the record pushed for one entry (academic-integration.js 49-59)
BibPub(e) ==
    Pub(e.key,
        e.title,
        IF FalsyStr(e.author) THEN <<>> ELSE SplitAnd(e.author),
        IF FalsyStr(e.journal) THEN "Unknown Journal" ELSE e.journal,
        IF FalsyNum(ParseInt(e.year)) THEN CurrentYear ELSE ParseInt(e.year),
        IF FalsyStr(e.doi) THEN Null ELSE e.doi,
        Undefined,
        "",
        "journal",
        "published")

\* only article entries that have a title become publications
BibAccepted(e) == ToLowerType(e.type) = "article" /\ ~FalsyStr(e.title)

RECURSIVE SelectPubs(_)
SelectPubs(entries) ==
    IF entries = <<>> THEN <<>>
    ELSE (IF BibAccepted(Head(entries)) THEN <<BibPub(Head(entries))>> ELSE <<>>)
         \o SelectPubs(Tail(entries))

\* parseBibtexFile: null (parsed = FALSE) when the file is absent or the
\* read throws, else the publications of the accepted entries, in order
parseBibtexFile(bib) ==
    IF bib.status # "ok"
    THEN [parsed |-> FALSE, publications |-> <<>>]
    ELSE [parsed |-> TRUE,
          publications |-> SelectPubs(EntryMatches(bib.entries))]

(***************************************************************************)
(* publications.json: { publications: [...], statistics: {...} }.          *)
(***************************************************************************)
PubsDoc(pubs, stats) == [publications |-> pubs, statistics |-> stats]

\* variant: a stored record with the incoming id is replaced by the incoming one
RECURSIVE mergeBibtexOverwrite(_, _)
mergeBibtexOverwrite(mergedPublications, bibtexPublications) ==
    IF bibtexPublications = <<>> THEN mergedPublications
    ELSE LET bibPub == Head(bibtexPublications)
         IN mergeBibtexOverwrite(
                IF HasId(mergedPublications, bibPub.id)
                THEN [i \in 1..Len(mergedPublications) |->
                        IF mergedPublications[i].id = bibPub.id
                        THEN bibPub ELSE mergedPublications[i]]
                ELSE Append(mergedPublications, bibPub),
                Tail(bibtexPublications))

\* variant: the lookup is made in the stored sequence, not in the copy that
\* already holds the records pushed by this run
mergeBibtexStaleLookup(mergedPublications, bibtexPublications) ==
    mergedPublications
    \o SelectSeq(bibtexPublications,
                 LAMBDA bibPub : ~HasId(mergedPublications, bibPub.id))

\* the loop of updatePublicationsFromSources: a copy of the stored sequence,
\* each incoming record pushed unless a record of the copy has its id
RECURSIVE mergeBibtex(_, _)
mergeBibtex(mergedPublications, bibtexPublications) ==
    IF bibtexPublications = <<>> THEN mergedPublications
    ELSE LET bibPub == Head(bibtexPublications)
         IN mergeBibtex(IF HasId(mergedPublications, bibPub.id)
                        THEN mergedPublications
                        ELSE Append(mergedPublications, bibPub),
                        Tail(bibtexPublications))

\* what a handler leaves behind: the store, whether it threw, and the set
\* of documents it wrote
Result(store, threw, wrote) == [store |-> store, threw |-> threw, wrote |-> wrote]

updatePublicationsFromSources(store, bib) ==
    LET bibtexPublications == parseBibtexFile(bib)
        file == store.publications
    IN  IF ~bibtexPublications.parsed THEN Result(store, FALSE, {})
        ELSE IF ~Readable(file) THEN Result(store, TRUE, {})
        ELSE LET merged == mergeBibtex(file.doc.publications,
                                       bibtexPublications.publications)
                 stats == Spread(file.doc.statistics,
                                 [total_publications |-> Len(merged),
                                  last_updated |-> Today])
             IN Result([store EXCEPT !.publications =
                            File(Spread(file.doc,
                                        PubsDoc(JsonPubs(merged), stats)))],
                       FALSE, {"publications"})

(***************************************************************************)
(* HTML extraction (the sync script): extractPersonalInfo,                 *)
(* extractPublications, extractNews over the elements of the three pages.  *)
(***************************************************************************)
\* an element of research.html carrying an id attribute
PubElement(id, korol, year, img, text) ==
    [id |-> id, korol |-> korol, year |-> year, img |-> img, text |-> text]

\* the placeholder record of the element at 0-based position index - 1
ExtractedPub(el, index) ==
    Pub(el.id,
        "Publication " \o ToString(index),
        <<"R Korol">>,
        "Journal Name",
        IF el.year = YearUndefined THEN CurrentYear ELSE el.year,
        Undefined,
        IF el.img = Undefined
        THEN "images/publications/" \o ToString(index) \o ".jpg"
        ELSE el.img,
        el.text \o "...",
        "journal",
        "published")

PubElementAccepted(el) ==
    ~FalsyStr(el.id) /\ el.id # "nav" /\ el.id # "header" /\ el.korol

RECURSIVE extractPublicationsFrom(_, _)
extractPublicationsFrom(elements, index) ==
    IF index > Len(elements) THEN <<>>
    ELSE (IF PubElementAccepted(elements[index])
          THEN <<ExtractedPub(elements[index], index)>> ELSE <<>>)
         \o extractPublicationsFrom(elements, index + 1)

extractPublications(elements) == extractPublicationsFrom(elements, 1)

NewsItem(id, title, date, category, summary, content, images, featured, tags) ==
    [id |-> id, title |-> title, date |-> date, category |-> category,
     summary |-> summary, content |-> content, images |-> images,
     featured |-> featured, tags |-> tags]

\* imageSrc.includes('news/') over the image paths of the model
IncludesNews(src) == src \in {"images/news/a.jpg", "images/news/b.jpg"}

RECURSIVE extractNewsFrom(_, _)
extractNewsFrom(elements, index) ==
    IF index > Len(elements) THEN <<>>
    ELSE (IF elements[index] # Undefined /\ IncludesNews(elements[index])
          THEN <<NewsItem("news-" \o ToString(index),
                          "News Item " \o ToString(index),
                          Today, "academic",
                          "News summary extracted from existing content",
                          "Full news content would be extracted here",
                          <<elements[index]>>, index - 1 < 3, <<"extracted">>)>>
          ELSE <<>>)
         \o extractNewsFrom(elements, index + 1)

\* elements: the img src of each .modal_multi element (Undefined: no img)
extractNews(elements) == extractNewsFrom(elements, 1)

\* the index page: the text of #logo and of "#header p" (Undefined when the
\* element is absent) and the hrefs of the social links, in document order
IndexPage(logo, subtitle, links) ==
    [logo |-> logo, subtitle |-> subtitle, links |-> links]

\* textContent.trim() over the logo texts of the model
Trim(text) ==
    CASE text = " Roman Korol " -> "Roman Korol"
      [] text = " " -> ""
      [] OTHER -> text

\* titleText.match(/(.+?)\s*@\s*(.+?)\s*in the\s*(.+)/): match[1].trim(),
\* or Undefined when the subtitle does not match
SubtitleTitle(text) ==
    CASE text = "Postdoctoral Fellow @ UofR in the Franco Group"
              -> "Postdoctoral Fellow"
      [] text = "Assistant Professor @ MIT in the Chemistry Department"
              -> "Assistant Professor"
      [] OTHER -> Undefined

\* href.includes(platform) over the hrefs of the model
HrefIncludes(href, platform) ==
    \/ platform = "linkedin"
       /\ href \in {"https://linkedin.com/in/rk", "https://linkedin.com/in/other"}
    \/ platform = "twitter" /\ href = "https://twitter.com/rk"
    \/ platform = "facebook" /\ href = "https://facebook.com/rk"
    \/ platform = "researchgate" /\ href = "https://researchgate.net/rk"

ExtractedPlatforms == {"linkedin", "twitter", "facebook", "researchgate"}

\* info.social after the forEach over the links: a later link of a platform
\* overrides an earlier one
RECURSIVE SocialOf(_, _)
SocialOf(social, links) ==
    IF links = <<>> THEN social
    ELSE LET href == Head(links)
             hit == {p \in ExtractedPlatforms : HrefIncludes(href, p)}
         IN SocialOf(Spread(social, [p \in hit |-> href]), Tail(links))

Institution(name, url, department, departmentUrl) ==
    [name |-> name, url |-> url, department |-> department,
     departmentUrl |-> departmentUrl]

DefaultInstitution ==
    Institution("University of Rochester", "https://www.rochester.edu/",
                "Franco Group", "https://sas.rochester.edu/chm/groups/franco/")

extractPersonalInfo(page) ==
    [name |-> IF page.logo # Undefined THEN Trim(page.logo) ELSE "Roman Korol",
     title |-> IF page.subtitle # Undefined /\ SubtitleTitle(page.subtitle) # Undefined
               THEN SubtitleTitle(page.subtitle) ELSE "Postdoctoral Fellow",
     institution |-> DefaultInstitution,
     social |-> SocialOf(<<>>, page.links)]

\* the site handed to parseExistingHTML: index, research and news pages
Site(index, research, news) == [index |-> index, research |-> research, news |-> news]

parseExistingHTML(site) ==
    [personalInfo |-> extractPersonalInfo(site.index),
     publications |-> extractPublications(site.research),
     news |-> extractNews(site.news)]

(***************************************************************************)
(* updateJSONFiles(extractedData): personal.json, then publications.json,  *)
(* then news.json; each is skipped when absent, and a JSON.parse that      *)
(* throws ends the whole call (nothing catches it).                        *)
(***************************************************************************)
\* { ...currentPersonal, ...personalInfo, social: { ...a, ...b } }
mergePersonal(currentPersonal, personalInfo) ==
    Spread(Spread(currentPersonal, personalInfo),
           [social |-> Spread(currentPersonal.social, personalInfo.social)])

\* the forEach over the extracted publications, pushing into the array read
RECURSIVE mergeExtracted(_, _)
mergeExtracted(publications, extracted) ==
    IF extracted = <<>> THEN publications
    ELSE LET extractedPub == Head(extracted)
         IN mergeExtracted(IF HasId(publications, extractedPub.id)
                           THEN publications
                           ELSE Append(publications, extractedPub),
                           Tail(extracted))

\* the forEach over the extracted news items
RECURSIVE mergeExtractedNews(_, _)
mergeExtractedNews(news, extracted) ==
    IF extracted = <<>> THEN news
    ELSE LET extractedNewsItem == Head(extracted)
         IN mergeExtractedNews(IF HasId(news, extractedNewsItem.id)
                               THEN news
                               ELSE Append(news, extractedNewsItem),
                               Tail(extracted))

NewsDoc(news, last_updated) == [news |-> news, last_updated |-> last_updated]

\* one handler step after another: the second runs on the store the first left
Chain(first, second) ==
    Result(second.store, second.threw, first.wrote \cup second.wrote)

updatePersonalJSON(store, extractedData) ==
    IF ~Exists(store.personal) THEN Result(store, FALSE, {})
    ELSE IF ~Readable(store.personal) THEN Result(store, TRUE, {})
    ELSE Result([store EXCEPT !.personal =
                    File(mergePersonal(store.personal.doc,
                                       extractedData.personalInfo))],
                FALSE, {"personal"})

\* variant: the extracted publications are pushed and the statistics left
\* as they were
updatePublicationsJSONKeepingTotal(store, extractedData) ==
    IF ~Exists(store.publications) THEN Result(store, FALSE, {})
    ELSE IF ~Readable(store.publications) THEN Result(store, TRUE, {})
    ELSE LET currentPubs == store.publications.doc
             merged == mergeExtracted(currentPubs.publications,
                                      extractedData.publications)
         IN Result([store EXCEPT !.publications =
                        File(Spread(currentPubs,
                                    [publications |-> JsonPubs(merged)]))],
                   FALSE, {"publications"})

updatePublicationsJSON(store, extractedData) ==
    IF ~Exists(store.publications) THEN Result(store, FALSE, {})
    ELSE IF ~Readable(store.publications) THEN Result(store, TRUE, {})
    ELSE LET currentPubs == store.publications.doc
             merged == mergeExtracted(currentPubs.publications,
                                      extractedData.publications)
             stats == Spread(currentPubs.statistics,
                             [total_publications |-> Len(merged)])
         IN Result([store EXCEPT !.publications =
                        File(Spread(currentPubs,
                                    PubsDoc(JsonPubs(merged), stats)))],
                   FALSE, {"publications"})

updateNewsJSON(store, extractedData) ==
    IF ~Exists(store.news) THEN Result(store, FALSE, {})
    ELSE IF ~Readable(store.news) THEN Result(store, TRUE, {})
    ELSE LET currentNews == store.news.doc
         IN Result([store EXCEPT !.news =
                        File(Spread(currentNews,
                                    [news |-> mergeExtractedNews(
                                                  currentNews.news,
                                                  extractedData.news)]))],
                   FALSE, {"news"})

updateJSONFiles(store, extractedData) ==
    LET r1 == updatePersonalJSON(store, extractedData)
        r2 == IF r1.threw THEN r1
              ELSE Chain(r1, updatePublicationsJSON(r1.store, extractedData))
        r3 == IF r2.threw THEN r2
              ELSE Chain(r2, updateNewsJSON(r2.store, extractedData))
    IN r3

(***************************************************************************)
(* The interactive editor (part_002).                                      *)
(***************************************************************************)
\* variant: an unreadable file is taken for an empty document
loadAndDisplayDataOrEmpty(file) == [loaded |-> TRUE, data |-> file.doc]

\* loadAndDisplayData returns null (loaded = FALSE) when the read or the
\* parse throws
loadAndDisplayData(file) == [loaded |-> Readable(file), data |-> file.doc]

\* text.split(',').map(a => a.trim()) over the author texts of the model
SplitComma(text) ==
    CASE text = "R Korol, A Smith" -> <<"R Korol", "A Smith">>
      [] text = "Roman Korol,B Jones" -> <<"Roman Korol", "B Jones">>
      [] OTHER -> <<text>>

\* the record addPublication builds from the trimmed answers
EditorPub(a) ==
    Pub(a.id, a.title, SplitComma(a.authors), a.journal, ParseInt(a.year),
        IF a.doi = "" THEN Null ELSE a.doi,
        Undefined,
        a.abstract,
        IF a.type = "" THEN "journal" ELSE a.type,
        IF a.status = "" THEN "published" ELSE a.status)

\* variant: the new record is pushed to the end of the collection
addPublicationDocumentAppending(data, answers) ==
    LET pubs == Append(data.publications, EditorPub(answers))
        stats == Spread(data.statistics,
                        [total_publications |-> Len(pubs),
                         last_updated |-> Today])
    IN Spread(data, PubsDoc(pubs, stats))

\* publicationsData as addPublication passes it to saveData
addPublicationDocument(data, answers) ==
    LET pubs == <<EditorPub(answers)>> \o data.publications
        stats == Spread(data.statistics,
                        [total_publications |-> Len(pubs),
                         last_updated |-> Today])
    IN Spread(data, PubsDoc(pubs, stats))

addPublication(store, answers) ==
    LET publicationsData == loadAndDisplayData(store.publications)
    IN  IF ~publicationsData.loaded THEN Result(store, FALSE, {})
        ELSE Result([store EXCEPT !.publications =
                        saveData(addPublicationDocument(publicationsData.data,
                                                        answers))],
                    FALSE, {"publications"})

\* the images key is absent from the item the editor builds
ImagesUndefined == <<Undefined>>

\* text.split(',').map(t => t.trim()).filter(t => t) over the tag texts
SplitTags(text) ==
    CASE text = "" -> <<>>
      [] text = "talk, award" -> <<"talk", "award">>
      [] OTHER -> <<text>>

EditorNewsItem(a) ==
    NewsItem(a.id, a.title, a.date,
             IF a.category = "" THEN "academic" ELSE a.category,
             a.summary, a.content, ImagesUndefined,
             a.featured \in {"y", "Y"},
             SplitTags(a.tags))

addNewsItem(store, answers) ==
    LET newsItem == EditorNewsItem(answers)
        newsData == loadAndDisplayData(store.news)
    IN  IF ~newsData.loaded THEN Result(store, FALSE, {})
        ELSE Result([store EXCEPT !.news =
                        File(Spread(newsData.data,
                                    NewsDoc(<<newsItem>> \o newsData.data.news,
                                            Today)))],
                    FALSE, {"news"})

\* field.toLowerCase() over the field names of the model
ToLowerField(field) ==
    CASE field = "Name" -> "name"
      [] field = "TITLE" -> "title"
      [] OTHER -> field

editPersonalInfo(store, field, answer1, answer2) ==
    LET personalData == loadAndDisplayData(store.personal)
        f == ToLowerField(field)
    IN  IF ~personalData.loaded THEN Result(store, FALSE, {})
        ELSE IF f \notin {"name", "title", "institution"}
        THEN Result(store, FALSE, {})
        ELSE LET d == personalData.data
                 edited ==
                    CASE f = "name" -> [d EXCEPT !.name = answer1]
                      [] f = "title" -> [d EXCEPT !.title = answer1]
                      [] f = "institution" ->
                            [d EXCEPT !.institution.name = answer1,
                                      !.institution.url = answer2]
             IN Result([store EXCEPT !.personal = File(edited)],
                       FALSE, {"personal"})

Link(title, url, provider) == [title |-> title, url |-> url, provider |-> provider]

Resource(title, type, description, links) ==
    [title |-> title, type |-> type, description |-> description, links |-> links]

ResourcesDoc(sections, last_updated) ==
    [sections |-> sections, last_updated |-> last_updated]

addResource(store, sectionKey, resource) ==
    LET resourcesData == loadAndDisplayData(store.resources)
    IN  IF ~resourcesData.loaded THEN Result(store, FALSE, {})
        ELSE IF sectionKey \notin DOMAIN resourcesData.data.sections
        THEN Result(store, FALSE, {})
        ELSE LET d == resourcesData.data
                 sections ==
                    [d.sections EXCEPT ![sectionKey].resources =
                        Append(d.sections[sectionKey].resources, resource)]
             IN Result([store EXCEPT !.resources =
                            File(Spread(d, ResourcesDoc(sections, Today)))],
                       FALSE, {"resources"})

(***************************************************************************)
(* generateAcademicMetrics (academic-integration.js 261-328).              *)
(***************************************************************************)
Indices(s) == 1..Len(s)

CountByYear(pubs) ==
    [y \in {pubs[i].year : i \in Indices(pubs)} |->
        Cardinality({i \in Indices(pubs) : pubs[i].year = y})]

CountByStatus(pubs) ==
    [v \in {pubs[i].status : i \in Indices(pubs)} |->
        Cardinality({i \in Indices(pubs) : pubs[i].status = v})]

CountByType(pubs) ==
    [v \in {pubs[i].type : i \in Indices(pubs)} |->
        Cardinality({i \in Indices(pubs) : pubs[i].type = v})]

\* a > b on years: null counts as 0, undefined and NaN compare false
JsGreater(a, b) ==
    IF a \in {NaN, YearUndefined} \/ b \in {NaN, YearUndefined} THEN FALSE
    ELSE (IF a = YearNull THEN 0 ELSE a) > (IF b = YearNull THEN 0 ELSE b)

RECURSIVE Filter(_, _)
\* keeps the elements whose position is in keep
Filter(s, keep) ==
    IF s = <<>> THEN <<>>
    ELSE Filter(SubSeq(s, 1, Len(s) - 1), keep)
         \o (IF Len(s) \in keep THEN <<s[Len(s)]>> ELSE <<>>)

RECURSIVE ReduceLatestLast(_, _)
\* variant: the reduce keeps the publication it visits last
ReduceLatestLast(latest, rest) ==
    IF rest = <<>> THEN latest
    ELSE ReduceLatestLast(Head(rest), Tail(rest))

RECURSIVE ReduceLatest(_, _)
\* publishedPubs.reduce((latest, pub) => pub.year > latest.year ? pub : latest)
ReduceLatest(latest, rest) ==
    IF rest = <<>> THEN latest
    ELSE ReduceLatest(IF JsGreater(Head(rest).year, latest.year)
                      THEN Head(rest) ELSE latest,
                      Tail(rest))

\* null is the empty sequence, a publication the one-element sequence
LatestPublication(pubs) ==
    LET publishedPubs == Filter(pubs, {i \in Indices(pubs) :
                                          pubs[i].status = "published"})
    IN  IF publishedPubs = <<>> THEN <<>>
        ELSE <<ReduceLatest(Head(publishedPubs), Tail(publishedPubs))>>

\* author.includes('Roman') over the author names of the model
IncludesRoman(author) == author = "Roman Korol"

RECURSIVE Flatten(_)
Flatten(ss) == IF ss = <<>> THEN <<>> ELSE Head(ss) \o Flatten(Tail(ss))

RECURSIVE InsertionOrder(_, _)
\* Array.from(new Set(...)): first occurrences, in order
InsertionOrder(seen, rest) ==
    IF rest = <<>> THEN seen
    ELSE InsertionOrder(IF Head(rest) \in Range(seen) THEN seen
                        ELSE Append(seen, Head(rest)),
                        Tail(rest))

CollaborationNetwork(pubs) ==
    LET authors == Flatten([i \in Indices(pubs) |-> pubs[i].authors])
        others == Filter(authors, {i \in Indices(authors) :
                                      authors[i] # "R Korol"
                                      /\ ~IncludesRoman(authors[i])})
    IN InsertionOrder(<<>>, others)

computeMetrics(publications) ==
    [total_publications |-> Len(publications),
     publications_by_year |-> CountByYear(publications),
     publications_by_status |-> CountByStatus(publications),
     publications_by_type |-> CountByType(publications),
     latest_publication |-> LatestPublication(publications),
     collaboration_network |-> CollaborationNetwork(publications),
     last_updated |-> Today]

\* variant: the computed metrics replace the stored statistics object
generateAcademicMetricsReplacing(store) ==
    LET file == store.publications
    IN  IF ~Readable(file) THEN Result(store, FALSE, {})
        ELSE IF \E i \in Indices(file.doc.publications) :
                    file.doc.publications[i].authors = AuthorsUndefined
        THEN Result(store, FALSE, {})
        ELSE Result([store EXCEPT !.publications =
                        File(Spread(file.doc,
                                    [statistics |->
                                        computeMetrics(file.doc.publications)]))],
                    FALSE, {"publications"})

\* everything runs inside one try: a failed read or parse, or a publication
\* without an authors array (pub.authors.forEach), is caught and logged
generateAcademicMetrics(store) ==
    LET file == store.publications
    IN  IF ~Readable(file) THEN Result(store, FALSE, {})
        ELSE IF \E i \in Indices(file.doc.publications) :
                    file.doc.publications[i].authors = AuthorsUndefined
        THEN Result(store, FALSE, {})
        ELSE LET metrics == computeMetrics(file.doc.publications)
             IN Result([store EXCEPT !.publications =
                            File(Spread(file.doc,
                                        [statistics |->
                                            Spread(file.doc.statistics,
                                                   metrics)]))],
                       FALSE, {"publications"})

(***************************************************************************)
(* validateAcademicData (academic-integration.js 203-256).  An issue is    *)
(* its kind, the 1-based publication number of its message (0 when the     *)
(* message names none) and, for the duplicate issue, the titles listed.    *)
(***************************************************************************)
Issue(kind, index, titles) == [kind |-> kind, index |-> index, titles |-> titles]

\* doi.startsWith('10.') over the DOI texts of the model
StartsWith10(doi) == doi \in {"10.1/a", "10.2/b", "10.3/c"}

\* title.toLowerCase() over the titles of the model
ToLowerCase(title) ==
    CASE title = "Alpha" -> "alpha"
      [] title = "ALPHA" -> "alpha"
      [] title = "Beta" -> "beta"
      [] title = "Gamma" -> "gamma"
      [] OTHER -> title

\* variant: the three checks form an else-if chain, so a publication yields
\* the issue of its first failing check only
PubIssuesFirstOnly(pub, index) ==
    IF FalsyStr(pub.title) \/ pub.authors = AuthorsUndefined \/ Len(pub.authors) = 0
    THEN <<Issue("required", index, <<>>)>>
    ELSE IF ~FalsyStr(pub.doi) /\ ~StartsWith10(pub.doi)
    THEN <<Issue("doi", index, <<>>)>>
    ELSE IF FalsyNum(pub.year) \/ pub.year < 1900 \/ pub.year > CurrentYear + 2
    THEN <<Issue("year", index, <<>>)>>
    ELSE <<>>

\* variant: the two bounds of the year check are exclusive
PubIssuesExclusiveBounds(pub, index) ==
    (IF FalsyStr(pub.title) \/ pub.authors = AuthorsUndefined \/ Len(pub.authors) = 0
     THEN <<Issue("required", index, <<>>)>> ELSE <<>>)
    \o (IF ~FalsyStr(pub.doi) /\ ~StartsWith10(pub.doi)
        THEN <<Issue("doi", index, <<>>)>> ELSE <<>>)
    \o (IF FalsyNum(pub.year) \/ pub.year <= 1900 \/ pub.year >= CurrentYear + 2
        THEN <<Issue("year", index, <<>>)>> ELSE <<>>)

\* the three checks of the forEach body for publication number index
PubIssues(pub, index) ==
    (IF FalsyStr(pub.title) \/ pub.authors = AuthorsUndefined \/ Len(pub.authors) = 0
     THEN <<Issue("required", index, <<>>)>> ELSE <<>>)
    \o (IF ~FalsyStr(pub.doi) /\ ~StartsWith10(pub.doi)
        THEN <<Issue("doi", index, <<>>)>> ELSE <<>>)
    \o (IF FalsyNum(pub.year) \/ pub.year < 1900 \/ pub.year > CurrentYear + 2
        THEN <<Issue("year", index, <<>>)>> ELSE <<>>)

RECURSIVE ForEachIssues(_, _)
ForEachIssues(pubs, index) ==
    IF index > Len(pubs) THEN <<>>
    ELSE PubIssues(pubs[index], index) \o ForEachIssues(pubs, index + 1)

\* titles.indexOf(title): the first position holding title
IndexOf(titles, title) ==
    CHOOSE i \in Indices(titles) :
        titles[i] = title /\ \A j \in 1..(i - 1) : titles[j] # title

\* titles.filter((title, index) => titles.indexOf(title) !== index)
Duplicates(titles) ==
    Filter(titles, {i \in Indices(titles) : IndexOf(titles, titles[i]) # i})

\* pub.title.toLowerCase() throws when the title is undefined or null
TitleThrows(pubs) == \E i \in Indices(pubs) : pubs[i].title \in {Undefined, Null}

DuplicateIssues(pubs) ==
    LET titles == [i \in Indices(pubs) |-> ToLowerCase(pubs[i].title)]
        duplicates == Duplicates(titles)
    IN  IF Len(duplicates) > 0 THEN <<Issue("duplicate", 0, duplicates)>> ELSE <<>>

PersonalIssues(personalData) ==
    IF FalsyStr(personalData.name) \/ FalsyStr(personalData.title)
    THEN <<Issue("personal", 0, <<>>)>> ELSE <<>>

\* the issues returned: those pushed before the first exception, which the
\* catch around the whole body swallows
validateAcademicData(store) ==
    IF ~Readable(store.personal) THEN <<>>
    ELSE LET i1 == PersonalIssues(store.personal.doc)
         IN IF ~Readable(store.publications) THEN i1
            ELSE LET pubs == store.publications.doc.publications
                     i2 == i1 \o ForEachIssues(pubs, 1)
                 IN IF TitleThrows(pubs) THEN i2
                    ELSE i2 \o DuplicateIssues(pubs)

(***************************************************************************)
(* Documents and inputs of the model.                                      *)
(***************************************************************************)
Education(degree, institution, url, country) ==
    [degree |-> degree, institution |-> institution, url |-> url,
     country |-> country]

CuratedPersonal ==
    [name |-> "Dr. Roman Korol",
     title |-> "Research Associate",
     institution |-> Institution("MIT", "https://mit.edu/", "Chemistry",
                                 "https://chemistry.mit.edu/"),
     social |-> [linkedin |-> "https://linkedin.com/in/curated",
                 twitter |-> "",
                 email |-> "rk@example.org"],
     background |-> [education |-> <<Education("PhD", "Cornell", "https://cornell.edu/", "USA"),
                                     Education("BSc", "KNU", Undefined, Undefined)>>],
     research |-> [focus |-> "Quantum Dynamics", description |-> "description"],
     interests |-> <<"chemistry", "physics">>]

\* a profile whose name and title are still empty
SparsePersonal ==
    [CuratedPersonal EXCEPT !.name = "", !.title = "",
                            !.social = [email |-> "rk@example.org"]]

BlankPersonal == [SparsePersonal EXCEPT !.social = <<>>]

CuratedPub1 ==
    Pub("k1", "Alpha", <<"R Korol", "A Smith">>, "JCP", 2023, "10.1/a",
        "images/publications/alpha.jpg", "abstract", "journal", "published")

CuratedPub2 ==
    Pub("k2", "Beta", <<"A Smith">>, "Nature", 2024, Null,
        Undefined, "abstract", "conference", "submitted")

\* hand-edited records: a case-variant title with a bad DOI and year, no
\* title key, an empty title with no authors, no authors key and a null
\* year, and the years next to the two bounds of the year rule
CaseVariantPub ==
    Pub("k6", "ALPHA", <<"A Smith">>, "JCP", 1850, "doi:abc", Undefined,
        "abstract", "journal", "published")

UntitledPub ==
    Pub("k7", Undefined, <<"A Smith">>, "JCP", CurrentYear + 2, "10.2/b", Undefined,
        "abstract", "journal", "published")

EmptyPub ==
    Pub("k8", "", <<>>, "JCP", 1900, "", Undefined, "abstract", "journal",
        "published")

NoAuthorsPub ==
    Pub("k9", "Gamma", AuthorsUndefined, "JCP", YearNull, "abc", Undefined,
        "abstract", "journal", "published")

LatePub ==
    Pub("k10", "Gamma", <<"A Smith">>, "JCP", CurrentYear + 3, "abc", Undefined,
        "abstract", "journal", "published")

EarlyPub ==
    Pub("k11", "Delta", <<"A Smith">>, "JCP", 1899, Undefined, Undefined,
        "abstract", "journal", "submitted")

\* h_index is a hand-kept key that no handler computes
InitialStatistics(pubs) ==
    [total_publications |-> Len(pubs), last_updated |-> Earlier,
     h_index |-> "12"]

BlankPubsDoc == PubsDoc(<<>>, InitialStatistics(<<>>))

CuratedNews1 ==
    NewsItem("news-1", "Award", "2024-05-01", "awards", "summary", "content",
             <<"images/news/a.jpg">>, TRUE, <<"award">>)

BlankNewsDoc == NewsDoc(<<>>, Earlier)

Section(title, description, resources) ==
    [title |-> title, description |-> description, resources |-> resources]

CuratedResources ==
    ResourcesDoc([science |-> Section("Science", "description", <<>>)], Earlier)

ActivitySection(id, title, description, activities) ==
    [id |-> id, title |-> title, description |-> description,
     activities |-> activities]

CuratedActivities ==
    [sections |-> [outreach |-> ActivitySection("outreach", "Outreach",
                                                "description", <<>>)]]

\* a document in each of the three states a file can be in
FileStates(docs, blank) ==
    {File(d) : d \in docs} \cup {MalformedFile(blank), MissingFile(blank)}

BibFile(status, entries) == [status |-> status, entries |-> entries]

BibArticleK1 ==
    BibEntry("article", "k1", "Alpha (bib)", "R Korol and A Smith", "JCP",
             "2022a", "10.2/b")
BibArticleK3 ==
    BibEntry("article", "k3", "Gamma", Undefined, Undefined, "2022", Undefined)
BibArticleK3b ==
    BibEntry("Article", "k3", "Gamma v2", "A Smith", "PRL", "n.d.", Undefined)
BibBookK4 ==
    BibEntry("book", "k4", "A Book", "A Smith", Undefined, "2021", Undefined)
BibUntitledK4 ==
    BibEntry("article", "k4", Undefined, "A Smith", "PRL", "2021", Undefined)

\* references.bib as the runs of the model find it
BibFiles ==
    {BibFile("missing", <<>>), BibFile("unreadable", <<>>),
     BibFile("ok", <<>>),
     BibFile("ok", <<BibArticleK1>>),
     BibFile("ok", <<BibArticleK3, BibArticleK3b>>),
     BibFile("ok", <<BibArticleK3b, BibArticleK1>>),
     BibFile("ok", <<BibBookK4, BibUntitledK4>>)}

NavElement == PubElement("nav", TRUE, YearUndefined, Undefined, "Korol nav")
ElementK1 == PubElement("k1", TRUE, 2021, Undefined, "R Korol 2021")
ElementK3 ==
    PubElement("k3", TRUE, YearUndefined, "images/publications/g.jpg", "Korol")
ElementK3Other == PubElement("k3", FALSE, 2022, Undefined, "other 2022")

\* research.html: its elements that carry an id, in document order
ResearchPages ==
    {<<>>, <<NavElement, ElementK1>>, <<ElementK3, ElementK3>>,
     <<ElementK1, ElementK3>>, <<ElementK3Other>>}

\* news.html: the img src of each .modal_multi element
NewsPages ==
    {<<>>, <<"images/news/a.jpg">>,
     <<"images/publications/g.jpg", "images/news/b.jpg">>,
     <<Undefined, "images/news/a.jpg">>}

PlainIndexPage == IndexPage(Undefined, Undefined, <<>>)

IndexPages ==
    {PlainIndexPage,
     IndexPage(" Roman Korol ", "Postdoctoral Fellow @ UofR in the Franco Group",
               <<"https://linkedin.com/in/other", "https://linkedin.com/in/rk",
                 "https://twitter.com/rk">>),
     IndexPage(" ", "Welcome", <<"https://twitter.com/rk">>)}

EditorAnswers(id, year) ==
    [id |-> id, title |-> "ALPHA", authors |-> "", journal |-> "JCP",
     year |-> year, doi |-> "", abstract |-> "abstract", type |-> "",
     status |-> ""]

NewsAnswers(id) ==
    [id |-> id, title |-> "Talk", date |-> "2024-09-01", category |-> "",
     summary |-> "summary", content |-> "content", featured |-> "Y",
     tags |-> "talk, award"]

(***************************************************************************)
(* The renderers (part_003) and generateLatexCV.  An artifact is the text  *)
(* the template yields, with the markup between the interpolated values    *)
(* shortened; an interpolated undefined or null prints as JavaScript       *)
(* prints it.                                                              *)
(***************************************************************************)
\* `${v}` of a string-typed value
Str(v) ==
    CASE v = Undefined -> "undefined"
      [] v = Null -> "null"
      [] OTHER -> v

\* `${year}` of a number-typed value
NumStr(n) ==
    CASE n = NaN -> "NaN"
      [] n = YearNull -> "null"
      [] n = YearUndefined -> "undefined"
      [] OTHER -> ToString(n)

RECURSIVE Join(_, _)
\* Array.prototype.join(sep) of an array of strings
Join(s, sep) ==
    IF s = <<>> THEN ""
    ELSE IF Len(s) = 1 THEN Str(s[1])
    ELSE Str(s[1]) \o sep \o Join(Tail(s), sep)

\* the first 'R Korol' of the joined authors is set in bold
BoldFirstOwner(authors) ==
    IF \E i \in Indices(authors) : authors[i] = "R Korol"
    THEN LET k == CHOOSE i \in Indices(authors) :
                    authors[i] = "R Korol"
                    /\ \A j \in 1..(i - 1) : authors[j] # "R Korol"
         IN [authors EXCEPT ![k] = "<b>R Korol</b>"]
    ELSE authors

\* pub.authors.join throws when the record has no authors array
PublicationHTMLThrows(pub) == pub.authors = AuthorsUndefined

generatePublicationHTML(pub) ==
    "<div class=publication data-year=" \o NumStr(pub.year)
    \o " data-status=" \o Str(pub.status) \o "><div id=" \o Str(pub.id) \o ">"
    \o Join(BoldFirstOwner(pub.authors), ", ")
    \o " <i>" \o Str(pub.journal) \o "</i> <b>" \o NumStr(pub.year) \o "</b>"
    \o (IF ~FalsyStr(pub.doi)
        THEN "<a href=https://doi.org/" \o pub.doi \o ">" \o pub.doi \o "</a>"
        ELSE "")
    \o "<img src=" \o Str(pub.image) \o " title=" \o Str(pub.title) \o ">"
    \o "<p>" \o Str(pub.abstract) \o "</p></div></div>"

\* new Date(date).toLocaleDateString('en-US', ...) over the dates of the
\* model, for a process whose time zone is UTC
DateFormatted(date) ==
    CASE date = "2024-05-01" -> "May 1, 2024"
      [] date = "2024-09-01" -> "September 1, 2024"
      [] date = FirstDay -> "November 4, 2026"
      [] date = SecondDay -> "November 5, 2026"
      [] OTHER -> "Invalid Date"

generateNewsHTML(item) ==
    "<article class=news-item" \o (IF item.featured THEN " featured" ELSE "")
    \o " data-category=" \o Str(item.category) \o "><h3>" \o Str(item.title)
    \o "</h3><div class=date>" \o DateFormatted(item.date) \o "</div><p>"
    \o Str(item.summary) \o "</p><div class=content>" \o Str(item.content)
    \o "</div><div class=images>"
    \o (IF item.images = ImagesUndefined THEN ""
        ELSE Join([i \in Indices(item.images) |->
                      "<img src=" \o Str(item.images[i]) \o ">"], ""))
    \o "</div><div class=tags>"
    \o Join([i \in Indices(item.tags) |->
                "<span class=tag>" \o Str(item.tags[i]) \o "</span>"], " ")
    \o "</div></article>"

generateResourceHTML(section) ==
    "<section class=resource-section><h3>" \o Str(section.title) \o "</h3><p>"
    \o Str(section.description) \o "</p>"
    \o Join([i \in Indices(section.resources) |->
                "<div class=resource><h4>" \o Str(section.resources[i].title)
                \o "</h4><p>" \o Str(section.resources[i].description)
                \o "</p><ul>"
                \o Join([j \in Indices(section.resources[i].links) |->
                            "<li><a href=" \o Str(section.resources[i].links[j].url)
                            \o ">" \o Str(section.resources[i].links[j].title)
                            \o "</a> - "
                            \o Str(section.resources[i].links[j].provider)
                            \o "</li>"], "")
                \o "</ul></div>"], "")
    \o "</section>"

generateActivityHTML(section) ==
    "<section id=" \o Str(section.id) \o " class=activity-section><h3>"
    \o Str(section.title) \o "</h3><p>" \o Str(section.description)
    \o "</p><div class=activities>"
    \o Join([i \in Indices(section.activities) |->
                "<div class=activity><h4>" \o Str(section.activities[i].title)
                \o "</h4><p>" \o Str(section.activities[i].description)
                \o "</p></div>"], "")
    \o "</div></section>"

\* the configured base URL
BaseUrl == "https://romankorol.com"

SitemapPages ==
    <<[url |-> "", changefreq |-> "monthly", priority |-> "1.0"],
      [url |-> "research.html", changefreq |-> "monthly", priority |-> "0.9"],
      [url |-> "news.html", changefreq |-> "weekly", priority |-> "0.8"],
      [url |-> "learn.html", changefreq |-> "monthly", priority |-> "0.7"],
      [url |-> "activities.html", changefreq |-> "monthly", priority |-> "0.7"]>>

\* what one page contributes: the values of its <url> block
SitemapEntry(page) ==
    [loc |-> BaseUrl \o "/" \o page.url, changefreq |-> page.changefreq,
     priority |-> page.priority, lastmod |-> Today]

\* the <url> block of one entry
SitemapUrl(entry) ==
    "<url><loc>" \o entry.loc
    \o "</loc><changefreq>" \o entry.changefreq
    \o "</changefreq><priority>" \o entry.priority
    \o "</priority><lastmod>" \o entry.lastmod \o "</lastmod></url>"

\* the document around the <url> blocks
SitemapDocument(entries) ==
    "<?xml version=1.0?><urlset>"
    \o Join([i \in Indices(entries) |-> SitemapUrl(entries[i])], "")
    \o "</urlset>"

\* variant: the last page of the list is left out
generateSitemapShort ==
    SitemapDocument([i \in 1..(Len(SitemapPages) - 1) |->
                        SitemapEntry(SitemapPages[i])])

generateSitemap ==
    SitemapDocument([i \in Indices(SitemapPages) |->
                        SitemapEntry(SitemapPages[i])])

\* the keys of personal.social in the order Object.values lists them
PlatformOrder == <<"linkedin", "twitter", "facebook", "researchgate", "email">>

SocialValues(social) ==
    LET present == Filter(PlatformOrder,
                          {i \in Indices(PlatformOrder) :
                              PlatformOrder[i] \in DOMAIN social})
    IN [i \in Indices(present) |-> social[present[i]]]

\* pub.year.toString() throws when the year is null or absent
StructuredDataThrows(publications) ==
    \E i \in Indices(publications) :
        publications[i].year \in {YearNull, YearUndefined}

\* JSON.stringify drops a key whose value is undefined
JsonKey(key, value) ==
    IF value = Undefined THEN "" ELSE "," \o key \o ":" \o Str(value)

\* the objects of structuredData.hasCredential before JSON.stringify
\* (part_003 196-202), for publications whose year is a number
HasCredential(pubs) ==
    [i \in Indices(pubs) |->
        [name |-> pubs[i].title,
         datePublished |-> NumStr(pubs[i].year),
         publisher |-> pubs[i].journal,
         url |-> IF FalsyStr(pubs[i].doi) THEN UndefinedValue
                 ELSE "https://doi.org/" \o pubs[i].doi]]

\* publications: the parsed document, or the empty sequence for null
generateStructuredData(personal, publications) ==
    "{@type:Person,name:" \o Str(personal.name)
    \o ",jobTitle:" \o Str(personal.title)
    \o ",worksFor:{name:" \o Str(personal.institution.name)
    \o ",url:" \o Str(personal.institution.url) \o "}"
    \o ",url:" \o BaseUrl
    \o ",sameAs:[" \o Join(SocialValues(personal.social), ",") \o "]"
    \o ",alumniOf:["
    \o Join([i \in Indices(personal.background.education) |->
                "{name:" \o Str(personal.background.education[i].institution)
                \o JsonKey("url", personal.background.education[i].url) \o "}"],
            ",")
    \o "]"
    \o (IF publications = <<>> THEN ""
        ELSE ",hasCredential:["
             \o Join([i \in Indices(publications[1].publications) |->
                        LET pub == publications[1].publications[i]
                        IN "{name:" \o Str(pub.title)
                           \o ",author:[" \o Join(pub.authors, ",") \o "]"
                           \o ",datePublished:" \o NumStr(pub.year)
                           \o ",publisher:" \o Str(pub.journal)
                           \o (IF FalsyStr(pub.doi) THEN ""
                               ELSE ",url:https://doi.org/" \o pub.doi)
                           \o "}"], ",")
             \o "]")
    \o "}"

(***************************************************************************)
(* renderTemplate (part_003 49-54).  A JavaScript value is its kind, the   *)
(* text String(value) gives and, for an object, its own fields.  A         *)
(* template is the sequence of pieces the placeholder regex cuts it into:  *)
(* the matches {{path}} and the texts between them.                        *)
(***************************************************************************)
JsValue(kind, text, fields) == [kind |-> kind, text |-> text, fields |-> fields]

JsUndefined == JsValue("undefined", "undefined", <<>>)
JsNull == JsValue("null", "null", <<>>)
JsString(text) == JsValue("string", text, <<>>)
JsNumber(text) == JsValue("number", text, <<>>)
JsFunction(text) == JsValue("function", text, <<>>)
JsObject(fields) == JsValue("object", "[object Object]", fields)

\* text.length over the strings of the model
StringLength(text) ==
    CASE text = "T" -> "1"
      [] text = "MIT" -> "3"
      [] text = "Roman" -> "5"
      [] OTHER -> "0"

\* obj[prop] for a property obj does not own: what the prototype chain of
\* an object or a string holds under that name, else undefined
Inherited(obj, prop) ==
    CASE obj.kind = "object" /\ prop = "constructor"
              -> JsFunction("function Object() { [native code] }")
      [] obj.kind = "object" /\ prop = "toString"
              -> JsFunction("function toString() { [native code] }")
      [] obj.kind = "string" /\ prop = "length"
              -> JsNumber(StringLength(obj.text))
      [] OTHER -> JsUndefined

\* obj?.[prop]
OptionalGet(obj, prop) ==
    IF obj.kind \in {"undefined", "null"} THEN JsUndefined
    ELSE IF obj.kind = "object" /\ prop \in DOMAIN obj.fields
    THEN obj.fields[prop]
    ELSE Inherited(obj, prop)

RECURSIVE ReducePath(_, _)
\* key.split('.').reduce((obj, prop) => obj?.[prop], data)
ReducePath(obj, path) ==
    IF path = <<>> THEN obj
    ELSE ReducePath(OptionalGet(obj, Head(path)), Tail(path))

\* a text between two matches; it holds no match of the regex
TextPiece(text) == [placeholder |-> FALSE, text |-> text, path |-> <<>>]

\* a match {{a.b.c}} of the regex, with key split at the dots
PlaceholderPiece(path) ==
    [placeholder |-> TRUE, text |-> "{{" \o Join(path, ".") \o "}}", path |-> path]

\* the replacer: value !== undefined ? value : match
Replacement(piece, data) ==
    LET value == ReducePath(data, piece.path)
    IN IF value.kind # "undefined" THEN value.text ELSE piece.text

renderTemplate(template, data) ==
    Join([i \in Indices(template) |->
             IF template[i].placeholder THEN Replacement(template[i], data)
             ELSE template[i].text], "")

\* personalData.name.split(' ') over the names of the model
SplitSpace(name) ==
    CASE name = "Dr. Roman Korol" -> <<"Dr.", "Roman", "Korol">>
      [] name = "Roman Korol" -> <<"Roman", "Korol">>
      [] name = "R Korol" -> <<"R", "Korol">>
      [] OTHER -> <<name>>

\* array[i] of a JavaScript array: undefined past its end
At(s, i) == IF i \in Indices(s) THEN s[i] ELSE Undefined

\* social.email: undefined when the profile has no such key
SocialAt(social, key) == IF key \in DOMAIN social THEN social[key] ELSE Undefined

\* pub.authors.join throws when a publication has no authors array
LatexCVThrows(publicationsData) ==
    \E i \in Indices(publicationsData.publications) :
        publicationsData.publications[i].authors = AuthorsUndefined

generateLatexCV(personalData, publicationsData) ==
    "\\name{" \o Str(At(SplitSpace(personalData.name), 1)) \o "}{"
    \o Str(At(SplitSpace(personalData.name), 2)) \o "}"
    \o "\\title{" \o Str(personalData.title) \o "}"
    \o "\\address{" \o Str(personalData.institution.name) \o "}"
    \o "\\email{" \o Str(SocialAt(personalData.social, "email")) \o "}"
    \o "\\section{Education}"
    \o Join([i \in Indices(personalData.background.education) |->
                LET edu == personalData.background.education[i]
                IN "\\cventry{" \o Str(edu.degree) \o "}{" \o Str(edu.institution)
                   \o "}{" \o (IF FalsyStr(edu.country) THEN "" ELSE edu.country)
                   \o "}"], "\\n")
    \o "\\section{Research Interests}\\cvitem{Focus}{"
    \o Str(personalData.research.focus) \o "}\\cvitem{Description}{"
    \o Str(personalData.research.description) \o "}"
    \o "\\section{Publications}"
    \o Join([i \in Indices(publicationsData.publications) |->
                LET pub == publicationsData.publications[i]
                IN "\\cvitem{" \o NumStr(pub.year) \o "}{"
                   \o Join(pub.authors, ", ") \o ". \\textit{" \o Str(pub.title)
                   \o "}. " \o Str(pub.journal) \o ", " \o NumStr(pub.year)
                   \o ".}"], "\\n")
    \o "\\section{Skills}\\cvitem{Research}{"
    \o Join(personalData.interests, ", ") \o "}"

(***************************************************************************)
(* The handlers that write artifacts.  A pipeline result adds the          *)
(* artifacts directory and the steps that ran to the handler result.       *)
(***************************************************************************)
Outcome(store, gen, threw, wrote, issues, ran) ==
    [store |-> store, generated |-> gen, threw |-> threw, wrote |-> wrote,
     issues |-> issues, ran |-> ran]

\* loadData of the generator: null (loaded = FALSE) on any read or parse error
loadData(file) == [loaded |-> Readable(file), data |-> file.doc]

\* Object.values(f): the values of the keys, each once
RECURSIVE ObjectValues(_, _)
ObjectValues(f, keys) ==
    IF keys = {} THEN <<>>
    ELSE LET k == CHOOSE x \in keys : TRUE
         IN <<f[k]>> \o ObjectValues(f, keys \ {k})

SectionsOf(doc) == ObjectValues(doc.sections, DOMAIN doc.sections)

GeneratedFiles ==
    {"publications.html", "news.html", "resources.html", "activities.html",
     "structuredData.json", "sitemap.xml"}

generateContent(store, gen) ==
    LET personal == loadData(store.personal)
        publications == loadData(store.publications)
        news == loadData(store.news)
        resources == loadData(store.resources)
        activities == loadData(store.activities)
    IN  IF ~personal.loaded THEN Outcome(store, gen, FALSE, {}, <<>>, {})
        ELSE IF publications.loaded
                /\ (\/ \E i \in Indices(publications.data.publications) :
                          PublicationHTMLThrows(publications.data.publications[i])
                    \/ StructuredDataThrows(publications.data.publications))
        THEN Outcome(store, gen, TRUE, {}, <<>>, {})
        ELSE LET generatedContent ==
                    [a \in GeneratedFiles |->
                        CASE a = "publications.html" ->
                                IF publications.loaded
                                THEN Join([i \in Indices(publications.data.publications) |->
                                             generatePublicationHTML(
                                                 publications.data.publications[i])], "")
                                ELSE ""
                          [] a = "news.html" ->
                                IF news.loaded
                                THEN Join([i \in Indices(news.data.news) |->
                                             generateNewsHTML(news.data.news[i])], "")
                                ELSE ""
                          [] a = "resources.html" ->
                                IF resources.loaded
                                THEN Join([i \in Indices(SectionsOf(resources.data)) |->
                                             generateResourceHTML(
                                                 SectionsOf(resources.data)[i])], "")
                                ELSE ""
                          [] a = "activities.html" ->
                                IF activities.loaded
                                THEN Join([i \in Indices(SectionsOf(activities.data)) |->
                                             generateActivityHTML(
                                                 SectionsOf(activities.data)[i])], "")
                                ELSE ""
                          [] a = "structuredData.json" ->
                                generateStructuredData(
                                    personal.data,
                                    IF publications.loaded
                                    THEN <<publications.data>> ELSE <<>>)
                          [] a = "sitemap.xml" -> generateSitemap]
             IN Outcome(store, Spread(gen, generatedContent), FALSE,
                        GeneratedFiles, <<>>, {})

\* variant: without pdflatex the error leaves the handler before anything
\* is written
generateAcademicDocumentsHard(store, gen, pdflatex) ==
    IF ~Readable(store.personal) \/ ~Readable(store.publications)
    THEN Outcome(store, gen, FALSE, {}, <<>>, {})
    ELSE IF LatexCVThrows(store.publications.doc)
    THEN Outcome(store, gen, FALSE, {}, <<>>, {})
    ELSE IF pdflatex = "absent"
    THEN Outcome(store, gen, TRUE, {}, <<>>, {})
    ELSE LET cvLatex == generateLatexCV(store.personal.doc, store.publications.doc)
             withTex == [gen EXCEPT !["CV_Generated.tex"] = cvLatex]
         IN IF pdflatex = "ok"
            THEN Outcome(store,
                         [withTex EXCEPT !["CV_Generated.pdf"] = "pdf of " \o cvLatex],
                         FALSE, {"CV_Generated.tex", "CV_Generated.pdf"}, <<>>, {})
            ELSE Outcome(store, withTex, FALSE, {"CV_Generated.tex"}, <<>>, {})

\* pdflatex: "absent" (which pdflatex fails), "fails" (the compilation
\* throws) or "ok" (CV_Generated.pdf is produced and copied to pdf/)
generateAcademicDocuments(store, gen, pdflatex) ==
    IF ~Readable(store.personal) \/ ~Readable(store.publications)
    THEN Outcome(store, gen, FALSE, {}, <<>>, {})
    ELSE IF LatexCVThrows(store.publications.doc)
    THEN Outcome(store, gen, FALSE, {}, <<>>, {})
    ELSE LET cvLatex == generateLatexCV(store.personal.doc, store.publications.doc)
             withTex == [gen EXCEPT !["CV_Generated.tex"] = cvLatex]
         IN IF pdflatex = "ok"
            THEN Outcome(store,
                         [withTex EXCEPT !["CV_Generated.pdf"] = "pdf of " \o cvLatex],
                         FALSE, {"CV_Generated.tex", "CV_Generated.pdf"}, <<>>, {})
            ELSE Outcome(store, withTex, FALSE, {"CV_Generated.tex"}, <<>>, {})

\* variant: the documents are generated from the store as it was before
\* the merge
runAcademicIntegrationStale(store, gen, bib, pdflatex) ==
    LET updated == updatePublicationsFromSources(store, bib)
    IN  IF updated.threw
        THEN Outcome(updated.store, gen, TRUE, updated.wrote, <<>>,
                     {"updatePublicationsFromSources"})
        ELSE LET metrics == generateAcademicMetrics(updated.store)
                 issues == validateAcademicData(metrics.store)
                 documents == generateAcademicDocuments(store, gen, pdflatex)
             IN Outcome(metrics.store, documents.generated, FALSE,
                        updated.wrote \cup metrics.wrote \cup documents.wrote,
                        issues,
                        {"updatePublicationsFromSources", "generateAcademicMetrics",
                         "validateAcademicData", "generateAcademicDocuments"})

\* variant: the run ends after the validation when it returned issues
runAcademicIntegrationBlocking(store, gen, bib, pdflatex) ==
    LET updated == updatePublicationsFromSources(store, bib)
    IN  IF updated.threw
        THEN Outcome(updated.store, gen, TRUE, updated.wrote, <<>>,
                     {"updatePublicationsFromSources"})
        ELSE LET metrics == generateAcademicMetrics(updated.store)
                 issues == validateAcademicData(metrics.store)
                 documents == generateAcademicDocuments(metrics.store, gen, pdflatex)
             IN IF issues # <<>>
                THEN Outcome(metrics.store, gen, TRUE,
                             updated.wrote \cup metrics.wrote, issues,
                             {"updatePublicationsFromSources",
                              "generateAcademicMetrics", "validateAcademicData"})
                ELSE Outcome(documents.store, documents.generated, FALSE,
                             updated.wrote \cup metrics.wrote \cup documents.wrote,
                             issues,
                             {"updatePublicationsFromSources",
                              "generateAcademicMetrics", "validateAcademicData",
                              "generateAcademicDocuments"})

\* await updatePublicationsFromSources(); generateAcademicMetrics();
\* validateAcademicData(); generateAcademicDocuments(): a rejection of the
\* first ends the run
runAcademicIntegration(store, gen, bib, pdflatex) ==
    LET updated == updatePublicationsFromSources(store, bib)
    IN  IF updated.threw
        THEN Outcome(updated.store, gen, TRUE, updated.wrote, <<>>,
                     {"updatePublicationsFromSources"})
        ELSE LET metrics == generateAcademicMetrics(updated.store)
                 issues == validateAcademicData(metrics.store)
                 documents == generateAcademicDocuments(metrics.store, gen, pdflatex)
             IN Outcome(documents.store, documents.generated, FALSE,
                        updated.wrote \cup metrics.wrote \cup documents.wrote,
                        issues,
                        {"updatePublicationsFromSources", "generateAcademicMetrics",
                         "validateAcademicData", "generateAcademicDocuments"})

(***************************************************************************)
(* Theme toggle (part_000).  The page holds the localStorage item          *)
(* 'romankorol-theme' (Null when there is none), whether localStorage      *)
(* throws on every access, body's data-theme attribute, the theme of the   *)
(* last themechange event, whether the number of themechange events so    *)
(* far is odd, and the system colour scheme.                               *)
(***************************************************************************)
THEMES == {"light", "dark", "auto"}

NoAttribute == "<no attribute>"

BrowserPage(storage, saved, systemDark) ==
    [storage |-> storage, saved |-> saved, dataTheme |-> NoAttribute,
     applied |-> "none", odd |-> FALSE, systemDark |-> systemDark,
     ready |-> FALSE,
     origin |-> "none", trail |-> <<>>]

\* the page of the specifications that run no theme script
NoPage == BrowserPage("available", Null, FALSE)

getSavedTheme(p) ==
    IF p.storage = "throws" THEN "auto"
    ELSE IF FalsyStr(p.saved) THEN "auto"
    ELSE p.saved

saveTheme(p, theme) ==
    IF p.storage = "throws" THEN p ELSE [p EXCEPT !.saved = theme]

applyTheme(p, theme) ==
    [p EXCEPT !.dataTheme = IF theme = "auto" THEN NoAttribute ELSE theme,
              !.applied = theme,
              !.odd = ~p.odd]

\* variant: the switch goes from dark back to light
NextThemeTwoWay(currentTheme) ==
    CASE currentTheme = "light" -> "dark"
      [] OTHER -> "light"

\* the switch of cycleTheme
NextTheme(currentTheme) ==
    CASE currentTheme = "light" -> "dark"
      [] currentTheme = "dark" -> "auto"
      [] OTHER -> "light"

cycleTheme(p) ==
    LET nextTheme == NextTheme(getSavedTheme(p))
    IN applyTheme(saveTheme(p, nextTheme), nextTheme)

\* variant: an invalid argument is saved and applied as well
setThemeUnchecked(p, theme) == applyTheme(saveTheme(p, theme), theme)

\* window.ThemeToggle.setTheme
setTheme(p, theme) ==
    IF theme \in THEMES THEN applyTheme(saveTheme(p, theme), theme) ELSE p

initTheme(p) == [applyTheme(p, getSavedTheme(p)) EXCEPT !.ready = TRUE]

\* the change listener of the colour-scheme media query
systemThemeChanged(p) ==
    LET changed == [p EXCEPT !.systemDark = ~p.systemDark]
    IN IF getSavedTheme(changed) = "auto" THEN applyTheme(changed, "auto")
       ELSE changed

(***************************************************************************)
(* State machine.  lastOp records the handler that ran last: its name,     *)
(* whether an exception left it, the documents it wrote, the issues it     *)
(* returned and the cases of its input that matter to the properties.      *)
(***************************************************************************)
Op(op, threw, wrote, issues, flags) ==
    [op |-> op, threw |-> threw, wrote |-> wrote, issues |-> issues,
     flags |-> flags]

\* the artifacts directory (content/generated) and make_pdf/CV_Generated.tex
ArtifactNames == GeneratedFiles \cup {"CV_Generated.tex", "CV_Generated.pdf"}

Absent == "<absent>"

NoArtifacts == [a \in ArtifactNames |-> Absent]

\* input and output while no function is called on its own
NoCall == <<>>

\* the editor process waits at its menu prompt (part_002 276)
AtMenu == [pc |-> "menu"]

\* the editor process waits at 'Press Enter to continue...' (part_002 310)
AtContinue == [pc |-> "continue"]

\* choice 7 has closed the readline interface and showMainMenu has returned
Closed == [pc |-> "closed"]

\* the editor process is suspended at an await prompt(...) of a handler
\* that has read a file: read is what loadAndDisplayData found
Holding(handler, file, read) == [pc |-> handler, file |-> file, read |-> read]

\* a function called once on the input drawn, its result kept in output
FunctionCall(op, result, threw) ==
    /\ lastOp.op = "none"
    /\ lastOp' = Op(op, threw, {}, <<>>, {})
    /\ output' = result
    /\ UNCHANGED <<dataStore, generated, today, input, editor, browser, watcher>>

StoredPubs(file) == file.doc.publications
StoredNews(file) == file.doc.news

\* the collections stay within the bounds of the model
WithinBounds(store) ==
    /\ Len(StoredPubs(store.publications)) <= MaxPubs
    /\ Len(StoredNews(store.news)) <= MaxNews
    /\ \A k \in DOMAIN store.resources.doc.sections :
          Len(store.resources.doc.sections[k].resources) <= MaxResources

\* an incoming record carries the id of a stored record with other values
Collides(stored, incoming) ==
    \E i \in Indices(stored), j \in Indices(incoming) :
        incoming[j].id = stored[i].id /\ incoming[j] # stored[i]

\* two records of the batch carry the same id, which is not stored yet
BatchRepeatsNewId(stored, incoming) ==
    \E i, j \in Indices(incoming) :
        i # j /\ incoming[i].id = incoming[j].id /\ ~HasId(stored, incoming[i].id)

MergeFlags(stored, incoming) ==
    (IF Collides(stored, incoming) THEN {"collision"} ELSE {})
    \cup (IF BatchRepeatsNewId(stored, incoming) THEN {"batchRepeat"} ELSE {})
    \cup (IF \E j \in Indices(incoming) : ~HasId(stored, incoming[j].id)
          THEN {"newId"} ELSE {})

\* the files of CONFIG.dataDir, the directory chokidar watches (part_003 13, 292)
DataFileNames == {"personal", "publications", "news", "resources", "activities"}

\* no generator process runs in watch mode
NotWatching ==
    [watching |-> FALSE, events |-> {}, ran |-> FALSE, read |-> <<>>, wrote |-> {}]

\* a write into the watched directory raises a change event for the file
\* written; events of one file not yet delivered are one event.  The
\* artifacts are written to content/generated (part_003 263), outside it
Notify(w, wrote) ==
    IF w.watching
    THEN [w EXCEPT !.events = @ \cup (wrote \cap DataFileNames)]
    ELSE w

Step(op, r, issues, flags) ==
    /\ WithinBounds(r.store)
    /\ dataStore' = r.store
    /\ lastOp' = Op(op, r.threw, r.wrote, issues, flags)
    /\ watcher' = Notify(watcher, r.wrote)
    /\ UNCHANGED <<today, input, output, editor, browser>>

\* node academic-integration.js update
UpdatePublicationsFromSources(bibFiles) ==
    \E bib \in bibFiles :
        /\ Step("updatePublicationsFromSources",
                updatePublicationsFromSources(dataStore, bib), <<>>,
                IF bib.status = "ok"
                THEN MergeFlags(StoredPubs(dataStore.publications),
                                parseBibtexFile(bib).publications)
                ELSE {"noBibtex"})
        /\ UNCHANGED generated

\* updateJSONFiles(parseExistingHTML()) of the sync script
UpdateJSONFiles(sites) ==
    \E site \in sites :
        LET extractedData == parseExistingHTML(site)
        IN  /\ Step("updateJSONFiles", updateJSONFiles(dataStore, extractedData),
                    <<>>,
                    MergeFlags(StoredPubs(dataStore.publications),
                               extractedData.publications)
                    \cup (IF Collides(StoredNews(dataStore.news), extractedData.news)
                          THEN {"newsCollision"} ELSE {}))
            /\ UNCHANGED generated

\* editor menu choice 1
AddPublication(answers) ==
    \E a \in answers :
        /\ Step("addPublication", addPublication(dataStore, a), <<>>,
                IF HasId(StoredPubs(dataStore.publications), a.id)
                THEN {"enteredStoredId"} ELSE {})
        /\ UNCHANGED generated

\* editor menu choice 2
AddNewsItem(answers) ==
    \E a \in answers :
        /\ Step("addNewsItem", addNewsItem(dataStore, a), <<>>,
                IF HasId(StoredNews(dataStore.news), a.id)
                THEN {"enteredStoredId"} ELSE {})
        /\ UNCHANGED generated

\* editor menu choice 3
EditPersonalInfo(fields, answers) ==
    \E field \in fields, answer1 \in answers, answer2 \in answers :
        /\ Step("editPersonalInfo",
                editPersonalInfo(dataStore, field, answer1, answer2), <<>>, {})
        /\ UNCHANGED generated

\* editor menu choice 4
AddResource(sectionKeys, resources) ==
    \E sectionKey \in sectionKeys, resource \in resources :
        /\ Step("addResource", addResource(dataStore, sectionKey, resource),
                <<>>, {})
        /\ UNCHANGED generated

\* a handler that has run to its first await after loadAndDisplayData
\* returned the document
LoadThenPrompt(handler, file) ==
    /\ editor = AtMenu
    /\ loadAndDisplayData(dataStore[file]).loaded
    /\ editor' = Holding(handler, file, dataStore[file])
    /\ UNCHANGED <<dataStore, generated, lastOp, today, input, output, browser, watcher>>

\* the prompts of the handler are answered and it runs to its end: r is the
\* handler's result on the document it holds, and its saveData overwrites
\* the file whatever the file holds by now
PromptThenSave(handler, r, flags) ==
    LET store == IF editor.file \in r.wrote
                 THEN [dataStore EXCEPT ![editor.file] = r.store[editor.file]]
                 ELSE dataStore
    IN  /\ WithinBounds(store)
        /\ dataStore' = store
        /\ lastOp' = Op(handler, r.threw, r.wrote, <<>>, flags)
        /\ editor' = AtContinue
        /\ watcher' = Notify(watcher, r.wrote)
        /\ UNCHANGED <<generated, today, input, output, browser>>

\* the store as the suspended handler knows it
HeldStore == [dataStore EXCEPT ![editor.file] = editor.read]

\* the file was written after the suspended handler read it
StaleFlags ==
    IF dataStore[editor.file] # editor.read THEN {"staleRead"} ELSE {}

\* editPersonalInfo up to the prompt of part_002 143
EditPersonalInfoLoad == LoadThenPrompt("editPersonalInfo", "personal")

\* editPersonalInfo from the prompt of part_002 143 to its end
EditPersonalInfoSave(fields, answers) ==
    /\ editor.pc = "editPersonalInfo"
    /\ \E field \in fields, answer1 \in answers, answer2 \in answers :
          PromptThenSave("editPersonalInfo",
                         editPersonalInfo(HeldStore, field, answer1, answer2),
                         StaleFlags)

\* addResource up to the prompt of part_002 181
AddResourceLoad == LoadThenPrompt("addResource", "resources")

\* addResource from the prompt of part_002 181 to its end
AddResourceSave(sectionKeys, resources) ==
    /\ editor.pc = "addResource"
    /\ \E sectionKey \in sectionKeys, resource \in resources :
          PromptThenSave("addResource",
                         addResource(HeldStore, sectionKey, resource),
                         StaleFlags)

\* a menu choice whose handler runs from the menu to its end in one piece:
\* its prompts come before its load.  saveData fails when the write throws,
\* and the handler then returns as well
MenuStep(handler, r) ==
    /\ editor = AtMenu
    /\ \E saved \in BOOLEAN :
          LET store == IF saved THEN r.store ELSE dataStore
          IN /\ WithinBounds(store)
             /\ dataStore' = store
             /\ lastOp' = Op(handler, r.threw, IF saved THEN r.wrote ELSE {},
                             <<>>, IF saved THEN {} ELSE {"saveFailed"})
             /\ watcher' = Notify(watcher, IF saved THEN r.wrote ELSE {})
    /\ editor' = AtContinue
    /\ UNCHANGED <<generated, today, input, output, browser>>

\* menu choice 1
ChooseAddPublication(answers) ==
    \E a \in answers : MenuStep("addPublication", addPublication(dataStore, a))

\* menu choice 2
ChooseAddNewsItem(answers) ==
    \E a \in answers : MenuStep("addNewsItem", addNewsItem(dataStore, a))

\* menu choices 3 and 4 when loadAndDisplayData returns null: the handler
\* returns before its first prompt
LoadFails(handler, file) ==
    /\ editor = AtMenu
    /\ ~loadAndDisplayData(dataStore[file]).loaded
    /\ lastOp' = Op(handler, FALSE, {}, <<>>, {"loadFailed"})
    /\ editor' = AtContinue
    /\ UNCHANGED <<dataStore, generated, today, input, output, browser, watcher>>

\* menu choices 5 and 6: listContent and backupContent read the data files
ListOrBackup ==
    /\ editor = AtMenu
    /\ \E handler \in {"listContent", "backupContent"} :
          lastOp' = Op(handler, FALSE, {}, <<>>, {})
    /\ editor' = AtContinue
    /\ UNCHANGED <<dataStore, generated, today, input, output, browser, watcher>>

\* menu choice 7
ChooseExit ==
    /\ editor = AtMenu
    /\ lastOp' = Op("exit", FALSE, {}, <<>>, {})
    /\ editor' = Closed
    /\ UNCHANGED <<dataStore, generated, today, input, output, browser, watcher>>

\* any other answer at the menu
ChooseInvalid ==
    /\ editor = AtMenu
    /\ lastOp' = Op("invalidChoice", FALSE, {}, <<>>, {})
    /\ editor' = AtContinue
    /\ UNCHANGED <<dataStore, generated, today, input, output, browser, watcher>>

\* variant: the loop ends after the operation
PressEnterExits ==
    /\ editor = AtContinue
    /\ editor' = Closed
    /\ UNCHANGED <<dataStore, generated, lastOp, today, input, output, browser, watcher>>

\* the 'Press Enter to continue...' prompt is answered and showMainMenu
\* calls itself
PressEnter ==
    /\ editor = AtContinue
    /\ editor' = AtMenu
    /\ UNCHANGED <<dataStore, generated, lastOp, today, input, output, browser, watcher>>

\* node academic-integration.js metrics
GenerateAcademicMetrics ==
    /\ Step("generateAcademicMetrics", generateAcademicMetrics(dataStore), <<>>, {})
    /\ UNCHANGED generated

\* variant: the validator stamps publications.json with the day of the run
ValidateAcademicDataStamping ==
    /\ lastOp' = Op("validateAcademicData", FALSE, {},
                    validateAcademicData(dataStore), {})
    /\ dataStore' =
         IF Readable(dataStore.publications)
         THEN [dataStore EXCEPT
                 !.publications.doc.statistics.last_updated = Today]
         ELSE dataStore
    /\ UNCHANGED <<generated, today, input, output, editor, browser, watcher>>

\* node academic-integration.js validate
ValidateAcademicData ==
    /\ lastOp' = Op("validateAcademicData", FALSE, {},
                    validateAcademicData(dataStore), {})
    /\ UNCHANGED <<dataStore, generated, today, input, output, editor, browser, watcher>>

PipelineStep(op, o, flags) ==
    /\ WithinBounds(o.store)
    /\ dataStore' = o.store
    /\ generated' = o.generated
    /\ lastOp' = Op(op, o.threw, o.wrote, o.issues, o.ran \cup flags)
    /\ watcher' = Notify(watcher, o.wrote)
    /\ UNCHANGED <<today, input, output, editor, browser>>

\* node generate-content.js
GenerateContent ==
    PipelineStep("generateContent", generateContent(dataStore, generated), {})

\* node generate-content.js watch: the listener is registered and nothing
\* is generated until the first change event
StartWatch ==
    /\ ~watcher.watching
    /\ watcher' = [NotWatching EXCEPT !.watching = TRUE]
    /\ lastOp' = Op("watch", FALSE, {}, <<>>, {})
    /\ UNCHANGED <<dataStore, generated, today, input, output, editor, browser>>

\* the 'change' listener of watch mode: one delivered event, one synchronous
\* generateContent.  An exception of generateContent leaves the listener;
\* whether the process survives it is decided by chokidar and the runtime
WatchChange ==
    /\ watcher.watching
    /\ \E file \in watcher.events :
          LET o == generateContent(dataStore, generated)
          IN /\ dataStore' = o.store
             /\ generated' = o.generated
             /\ lastOp' = Op("watchChange", o.threw, o.wrote, <<>>, {})
             /\ \E survives \in (IF o.threw THEN BOOLEAN ELSE {TRUE}) :
                   watcher' = [watching |-> survives,
                               events |-> IF survives
                                          THEN watcher.events \ {file} ELSE {},
                               ran |-> TRUE, read |-> <<dataStore>>,
                               wrote |-> o.wrote]
    /\ UNCHANGED <<today, input, output, editor, browser>>

\* node academic-integration.js generate
GenerateAcademicDocuments(pdflatexStates) ==
    \E pdflatex \in pdflatexStates :
        PipelineStep("generateAcademicDocuments",
                     generateAcademicDocuments(dataStore, generated, pdflatex),
                     IF pdflatex = "absent" THEN {"pdflatexAbsent"} ELSE {})

\* node academic-integration.js full
RunAcademicIntegration(bibFiles, pdflatexStates) ==
    \E bib \in bibFiles, pdflatex \in pdflatexStates :
        PipelineStep("runAcademicIntegration",
                     runAcademicIntegration(dataStore, generated, bib, pdflatex),
                     IF bib.status = "ok" THEN {} ELSE {"noBibtex"})

\* a handler of the theme script has run on the page; origin and trail
\* record the preference before, and the themes applied by, the cycleTheme
\* calls that followed one another (at most three)
ThemeStep(op, p, flags) ==
    /\ lastOp' = Op(op, FALSE, {}, <<>>, flags)
    /\ browser' = IF op = "cycleTheme"
               THEN IF lastOp.op = "cycleTheme" /\ Len(browser.trail) < 3
                    THEN [p EXCEPT !.trail = Append(browser.trail, p.applied)]
                    ELSE [p EXCEPT !.origin = getSavedTheme(browser),
                                   !.trail = <<p.applied>>]
               ELSE [p EXCEPT !.origin = "none", !.trail = <<>>]
    /\ UNCHANGED <<dataStore, generated, today, input, output, editor, watcher>>

\* DOMContentLoaded
InitTheme ==
    /\ ~browser.ready
    /\ ThemeStep("initTheme", initTheme(browser), {})

\* a click, Enter or Space on the toggle button, or ThemeToggle.cycleTheme()
CycleTheme ==
    /\ browser.ready
    /\ ThemeStep("cycleTheme", cycleTheme(browser), {})

\* ThemeToggle.setTheme(theme)
SetTheme(values) ==
    /\ browser.ready
    /\ \E theme \in values :
          ThemeStep("setTheme", setTheme(browser, theme),
                    IF theme \in THEMES THEN {"valid"} ELSE {})

\* the system switches between its light and dark colour scheme
SystemThemeChange ==
    /\ browser.ready
    /\ ThemeStep("systemThemeChange", systemThemeChanged(browser), {})

(***************************************************************************)
(* Spec: the Data Store under the merges, the editor's additions, the      *)
(* metrics run and the validator, in any order.                            *)
(***************************************************************************)
InitialPubs ==
    {<<>>, <<CuratedPub1>>, <<CuratedPub2>>, <<CuratedPub1, CuratedPub2>>}

\* categories is a top-level field of publications.json beside the two the
\* handlers touch
InitialPubsDocs ==
    {Spread(PubsDoc(ps, InitialStatistics(ps)),
            [categories |-> <<"journal", "conference">>]) : ps \in InitialPubs}

InitialNewsDocs == {NewsDoc(<<>>, Earlier), NewsDoc(<<CuratedNews1>>, Earlier)}

\* the inputs of Spec
SpecBibFiles ==
    {BibFile("missing", <<>>),
     BibFile("ok", <<BibArticleK1>>),
     BibFile("ok", <<BibArticleK3, BibArticleK3b>>)}

SpecSites ==
    {Site(PlainIndexPage, <<NavElement, ElementK1>>, <<"images/news/a.jpg">>),
     Site(PlainIndexPage, <<ElementK3, ElementK3>>,
          <<Undefined, "images/news/a.jpg">>)}

PubAnswers == {EditorAnswers("k1", "2024"), EditorAnswers("k5", "soon")}

ItemAnswers == {NewsAnswers("news-1"), NewsAnswers("2024-09-talk")}

NoOp == Op("none", FALSE, {}, <<>>, {})

Init ==
    /\ today = FirstDay
    /\ input = NoCall /\ output = NoCall /\ editor = AtMenu
    /\ browser = NoPage
    /\ watcher = NotWatching
    /\ dataStore \in
         [personal : {File(CuratedPersonal)},
          publications : FileStates(InitialPubsDocs, BlankPubsDoc),
          news : FileStates(InitialNewsDocs, BlankNewsDoc),
          resources : {File(CuratedResources)},
          activities : {File(CuratedActivities)}]
    /\ generated = NoArtifacts
    /\ lastOp = NoOp

Next ==
    \/ UpdatePublicationsFromSources(SpecBibFiles)
    \/ UpdateJSONFiles(SpecSites)
    \/ AddPublication(PubAnswers)
    \/ AddNewsItem(ItemAnswers)
    \/ GenerateAcademicMetrics
    \/ ValidateAcademicData

Spec == Init /\ [][Next]_vars

(***************************************************************************)
(* SpecMerge: the two merges alone, from every stored collection of the    *)
(* model (those the editor can have left included) and over every batch.   *)
(***************************************************************************)
\* what addPublication stores for the answers of the model
EditedPub(id, year) == JsonPub(EditorPub(EditorAnswers(id, year)))

MergePubs ==
    InitialPubs
    \cup {<<CuratedPub2, CuratedPub1>>,
          <<EditedPub("k5", "soon")>>,
          <<EditedPub("k1", "2024"), CuratedPub1>>,
          <<EditedPub("k3", "2024"), CuratedPub2>>}

MergeNews ==
    {<<>>, <<CuratedNews1>>,
     <<EditorNewsItem(NewsAnswers("news-2"))>>,
     <<EditorNewsItem(NewsAnswers("news-1")), CuratedNews1>>}

MergeSites ==
    {Site(PlainIndexPage, r, n) : r \in ResearchPages, n \in NewsPages}

InitMerge ==
    /\ today = FirstDay
    /\ input = NoCall /\ output = NoCall /\ editor = AtMenu
    /\ browser = NoPage
    /\ watcher = NotWatching
    /\ dataStore \in
         [personal : {File(CuratedPersonal)},
          publications : FileStates({PubsDoc(ps, InitialStatistics(ps)) :
                                        ps \in MergePubs}, BlankPubsDoc),
          news : FileStates({NewsDoc(ns, Earlier) : ns \in MergeNews},
                            BlankNewsDoc),
          resources : {File(CuratedResources)},
          activities : {File(CuratedActivities)}]
    /\ generated = NoArtifacts
    /\ lastOp = NoOp

NextMerge ==
    \/ UpdatePublicationsFromSources(BibFiles)
    \/ UpdateJSONFiles(MergeSites)

SpecMerge == InitMerge /\ [][NextMerge]_vars

(***************************************************************************)
(* SpecStore and SpecPipeline: the handlers over a Data Store in which any *)
(* one document may be missing or malformed.                               *)
(***************************************************************************)
BlankResourcesDoc == ResourcesDoc([science |-> Section("", "", <<>>)], "")

BlankActivitiesDoc ==
    [sections |-> [outreach |-> ActivitySection("", "", "", <<>>)]]

AtMostOneUnreadable(store) ==
    Cardinality({d \in DOMAIN store : ~Readable(store[d])}) <= 1

PipelineBibFiles == {BibFile("missing", <<>>), BibFile("ok", <<BibArticleK1>>)}

PipelineSites ==
    {Site(PlainIndexPage, <<NavElement>>, <<"images/news/a.jpg">>)}

PipelineResource ==
    Resource("Notes", "tutorial", "description",
             <<Link("Notes", "https://example.org/notes", "web")>>)

PdflatexStates == {"absent", "fails", "ok"}

InitPipeline ==
    /\ today = FirstDay
    /\ input = NoCall /\ output = NoCall /\ editor = AtMenu
    /\ browser = NoPage
    /\ watcher = NotWatching
    /\ dataStore \in
         {store \in
            [personal : FileStates({CuratedPersonal}, BlankPersonal),
             publications : FileStates({PubsDoc(<<>>, InitialStatistics(<<>>)),
                                        PubsDoc(<<CuratedPub1>>,
                                                InitialStatistics(<<CuratedPub1>>)),
                                        PubsDoc(<<CuratedPub1, CaseVariantPub>>,
                                                InitialStatistics(
                                                    <<CuratedPub1, CaseVariantPub>>))},
                                       BlankPubsDoc),
             news : FileStates({NewsDoc(<<CuratedNews1>>, Earlier)}, BlankNewsDoc),
             resources : FileStates({CuratedResources}, BlankResourcesDoc),
             activities : FileStates({CuratedActivities}, BlankActivitiesDoc)] :
            AtMostOneUnreadable(store)}
    /\ generated = NoArtifacts
    /\ lastOp = NoOp

\* the answers the editor is given in SpecStore
StoreAnswers == {EditorAnswers("k5", "soon")}

StoreNewsAnswers == {NewsAnswers("news-1")}

\* SpecStore: the seven handlers that write the Data Store
NextStore ==
    \/ UpdatePublicationsFromSources(PipelineBibFiles)
    \/ UpdateJSONFiles(PipelineSites)
    \/ AddPublication(StoreAnswers)
    \/ AddNewsItem(StoreNewsAnswers)
    \/ EditPersonalInfo({"name"}, {"Roman Korol"})
    \/ AddResource({"science"}, {PipelineResource})
    \/ GenerateAcademicMetrics

SpecStore == InitPipeline /\ [][NextStore]_vars

\* SpecPipeline: the sync, the integration run, the generators, the validator
NextPipeline ==
    \/ UpdateJSONFiles(PipelineSites)
    \/ RunAcademicIntegration(PipelineBibFiles, PdflatexStates)
    \/ GenerateContent
    \/ GenerateAcademicDocuments(PdflatexStates)
    \/ ValidateAcademicData

SpecPipeline == InitPipeline /\ [][NextPipeline]_vars

(***************************************************************************)
(* SpecPersonal: personal.json under the sync and the editor.              *)
(***************************************************************************)
PersonalSites == {Site(page, <<NavElement>>, <<>>) : page \in IndexPages}

InitPersonal ==
    /\ today = FirstDay
    /\ input = NoCall /\ output = NoCall /\ editor = AtMenu
    /\ browser = NoPage
    /\ watcher = NotWatching
    /\ dataStore \in
         [personal : FileStates({CuratedPersonal, SparsePersonal}, BlankPersonal),
          publications : {File(PubsDoc(<<CuratedPub1>>,
                                       InitialStatistics(<<CuratedPub1>>)))},
          news : {File(NewsDoc(<<CuratedNews1>>, Earlier))},
          resources : {File(CuratedResources)},
          activities : {File(CuratedActivities)}]
    /\ generated = NoArtifacts
    /\ lastOp = NoOp

NextPersonal ==
    \/ UpdateJSONFiles(PersonalSites)
    \/ EditPersonalInfo({"name", "TITLE", "institution", "email"},
                        {"", "Roman Korol", "MIT"})

SpecPersonal == InitPersonal /\ [][NextPersonal]_vars

(***************************************************************************)
(* SpecValidate: the validator over every publications collection of up    *)
(* to MaxValidated records, hand-edited records included.                  *)
(***************************************************************************)
ValidatedPubs ==
    {CuratedPub1, CuratedPub2, CaseVariantPub, UntitledPub, EmptyPub, NoAuthorsPub,
     LatePub, EarlyPub}

InitValidate ==
    /\ today = FirstDay
    /\ input = NoCall /\ output = NoCall /\ editor = AtMenu
    /\ browser = NoPage
    /\ watcher = NotWatching
    /\ dataStore \in
         [personal : FileStates({CuratedPersonal, SparsePersonal}, BlankPersonal),
          publications : FileStates({PubsDoc(ps, InitialStatistics(ps)) :
                                        ps \in SeqsUpTo(ValidatedPubs, MaxValidated)},
                                    BlankPubsDoc),
          news : {File(NewsDoc(<<>>, Earlier))},
          resources : {File(CuratedResources)},
          activities : {File(CuratedActivities)}]
    /\ generated = NoArtifacts
    /\ lastOp = NoOp

NextValidate == ValidateAcademicData

SpecValidate == InitValidate /\ [][NextValidate]_vars

(***************************************************************************)
(* SpecRender: the generators run again and again over a Data Store that   *)
(* no handler changes, while the calendar day advances.                    *)
(***************************************************************************)
\* midnight passes between two runs of the scripts
DayPasses ==
    /\ today = FirstDay
    /\ today' = SecondDay
    /\ UNCHANGED <<dataStore, generated, lastOp, input, output, editor, browser, watcher>>

NextRender ==
    \/ GenerateContent
    \/ GenerateAcademicDocuments(PdflatexStates)
    \/ DayPasses

SpecRender == InitPipeline /\ [][NextRender]_vars

(***************************************************************************)
(* Specifications of the functions called on their own: the input is drawn *)
(* by Init, the Data Store stays as curated.                               *)
(***************************************************************************)
CuratedStore ==
    [personal |-> File(CuratedPersonal),
     publications |-> File(PubsDoc(<<CuratedPub1>>,
                                   InitialStatistics(<<CuratedPub1>>))),
     news |-> File(NewsDoc(<<CuratedNews1>>, Earlier)),
     resources |-> File(CuratedResources),
     activities |-> File(CuratedActivities)]

InitCall(inputs) ==
    /\ today = FirstDay
    /\ input \in inputs
    /\ output = NoCall
    /\ editor = AtMenu
    /\ browser = NoPage
    /\ watcher = NotWatching
    /\ dataStore = CuratedStore
    /\ generated = NoArtifacts
    /\ lastOp = Op("none", FALSE, {}, <<>>, {})

\* SpecTemplate: renderTemplate over templates of up to MaxPieces pieces
MaxPieces == 2

TemplatePieces ==
    {TextPiece("Hello "), TextPiece("{{ name }}"),
     PlaceholderPiece(<<"name">>),
     PlaceholderPiece(<<"institution", "name">>),
     PlaceholderPiece(<<"institution", "url">>),
     PlaceholderPiece(<<"social", "email">>),
     PlaceholderPiece(<<"doi">>),
     PlaceholderPiece(<<"name", "length">>),
     PlaceholderPiece(<<"constructor">>)}

TemplateRecords ==
    {JsObject([name |-> JsString("Roman"),
               institution |-> JsObject([name |-> JsString("MIT")]),
               doi |-> JsNull]),
     JsObject([name |-> JsString("T")]),
     JsObject([constructor |-> JsString("own")]),
     JsNull}

TemplateInputs ==
    [template : SeqsUpTo(TemplatePieces, MaxPieces), data : TemplateRecords]

RenderTemplate ==
    FunctionCall("renderTemplate", renderTemplate(input.template, input.data),
                 FALSE)

InitTemplate == InitCall(TemplateInputs)

NextTemplate == RenderTemplate

SpecTemplate == InitTemplate /\ [][NextTemplate]_vars

\* SpecBibtex: parseBibtexFile over files of up to MaxBibEntries entries
MaxBibEntries == 2

\* @article{k1, title={T}, year={2022}} on one line, and the same entry
\* with its closing brace on a line of its own
BibSingleLineK1 ==
    SingleLine(BibEntry("article", "k1", "T", Undefined, Undefined, "2022",
                        Undefined))
BibMultiLineK5 ==
    BibEntry("article", "k5", "T", Undefined, Undefined, "2022", Undefined)

WrittenEntries ==
    {BibSingleLineK1, BibMultiLineK5, BibArticleK1, BibArticleK3,
     BibArticleK3b, BibBookK4, BibUntitledK4}

BibtexInputs ==
    {BibFile("missing", <<>>), BibFile("unreadable", <<>>)}
    \cup {BibFile("ok", entries) :
             entries \in SeqsUpTo(WrittenEntries, MaxBibEntries)}

ParseBibtexFile ==
    FunctionCall("parseBibtexFile", parseBibtexFile(input), FALSE)

InitBibtex == InitCall(BibtexInputs)

NextBibtex == ParseBibtexFile

SpecBibtex == InitBibtex /\ [][NextBibtex]_vars

\* SpecRoundTrip: a document is saved and then loaded.  The documents are
\* those addPublication passes to saveData, the curated documents of the
\* other files and the structured data of the generator.
RoundTripBases ==
    {PubsDoc(pubs, InitialStatistics(pubs)) :
        pubs \in {<<>>, <<CuratedPub1>>, <<CuratedPub2>>,
                  <<CuratedPub1, CuratedPub2>>}}

YearTexts == {"2024", "2021", "2022a", "abc", ""}

RoundTripDocuments ==
    {addPublicationDocument(base, EditorAnswers(id, year)) :
        base \in RoundTripBases, id \in {"k1", "k5", "k6"}, year \in YearTexts}
    \cup {CuratedPersonal, NewsDoc(<<CuratedNews1>>, Earlier),
          CuratedResources, CuratedActivities}
    \cup {[name |-> CuratedPersonal.name, url |-> BaseUrl,
           hasCredential |-> HasCredential(base.publications)] :
             base \in RoundTripBases}

\* saveData(filename, D) followed by loadData(filename)
SaveAndLoad ==
    FunctionCall("saveData", loadData(saveData(input)).data, FALSE)

InitRoundTrip == InitCall(RoundTripDocuments)

NextRoundTrip == SaveAndLoad

SpecRoundTrip == InitRoundTrip /\ [][NextRoundTrip]_vars

(***************************************************************************)
(* SpecEditor: one editor process, whose handlers are cut at their await   *)
(* points, beside the processes that write the same files: the sync        *)
(* script, the academic integration and a second editor whose handlers     *)
(* run between two steps of the first.  addPublication and addNewsItem     *)
(* await their prompts before they load, so their load and save are one    *)
(* step.                                                                   *)
(***************************************************************************)
EditorResource ==
    Resource("Notes", "tutorial", "description",
             <<Link("Notes", "https://example.org/notes", "web")>>)

InitEditor ==
    /\ today = FirstDay
    /\ input = NoCall /\ output = NoCall /\ editor = AtMenu
    /\ browser = NoPage
    /\ watcher = NotWatching
    /\ dataStore \in
         [personal : {File(CuratedPersonal), File(SparsePersonal)},
          publications : {File(PubsDoc(<<>>, InitialStatistics(<<>>))),
                          File(PubsDoc(<<CuratedPub1>>,
                                       InitialStatistics(<<CuratedPub1>>)))},
          news : {File(NewsDoc(<<CuratedNews1>>, Earlier))},
          resources : {File(CuratedResources)},
          activities : {File(CuratedActivities)}]
    /\ generated = NoArtifacts
    /\ lastOp = Op("none", FALSE, {}, <<>>, {})

NextEditor ==
    \/ EditPersonalInfoLoad
    \/ EditPersonalInfoSave({"name", "email"}, {"Roman Korol"})
    \/ AddResourceLoad
    \/ AddResourceSave({"science", "none"}, {EditorResource})
    \/ (editor = AtMenu /\ AddPublication({EditorAnswers("k5", "2024")}))
    \/ (editor = AtMenu /\ AddNewsItem({NewsAnswers("news-1")}))
    \/ UpdateJSONFiles({Site(page, <<NavElement>>, <<>>) : page \in IndexPages})
    \/ UpdatePublicationsFromSources({BibFile("ok", <<BibArticleK3>>)})
    \/ GenerateAcademicMetrics
    \/ AddResource({"science"}, {EditorResource})
    \/ PressEnter

SpecEditor == InitEditor /\ [][NextEditor]_vars

(***************************************************************************)
(* SpecTheme: the theme script on a page,    from every stored preference,    *)
(* with localStorage working or throwing on every access.                  *)
(***************************************************************************)
StoredPreferences == {Null, "", "light", "dark", "auto", "sepia"}

InitTheme0 ==
    /\ today = FirstDay
    /\ input = NoCall /\ output = NoCall /\ editor = AtMenu
    /\ browser \in {BrowserPage(storage, saved, systemDark) :
                    storage \in {"available", "throws"},
                    saved \in StoredPreferences, systemDark \in BOOLEAN}
    /\ watcher = NotWatching
    /\ dataStore = CuratedStore
    /\ generated = NoArtifacts
    /\ lastOp = Op("none", FALSE, {}, <<>>, {})

NextTheme0 ==
    \/ InitTheme
    \/ CycleTheme
    \/ SetTheme({"light", "dark", "auto", "sepia"})
    \/ SystemThemeChange

SpecTheme == InitTheme0 /\ [][NextTheme0]_vars

(***************************************************************************)
(* SpecMenu: the editor's command loop alone, every menu choice, over      *)
(* readable and unreadable documents.                                      *)
(***************************************************************************)
NextMenu ==
    \/ ChooseAddPublication(StoreAnswers)
    \/ ChooseAddNewsItem(StoreNewsAnswers)
    \/ EditPersonalInfoLoad
    \/ LoadFails("editPersonalInfo", "personal")
    \/ EditPersonalInfoSave({"name", "email"}, {"Roman Korol"})
    \/ AddResourceLoad
    \/ LoadFails("addResource", "resources")
    \/ AddResourceSave({"science", "none"}, {EditorResource})
    \/ ListOrBackup
    \/ ChooseExit
    \/ ChooseInvalid
    \/ PressEnter

SpecMenu == InitPipeline /\ [][NextMenu]_vars

(***************************************************************************)
(* SpecWatch: the generator in watch mode beside the writers of the Data   *)
(* Store.                                                                  *)
(***************************************************************************)
NextWatch ==
    \/ StartWatch
    \/ AddPublication(PubAnswers)
    \/ AddNewsItem(StoreNewsAnswers)
    \/ GenerateAcademicMetrics
    \/ WatchChange

SpecWatch == InitPipeline /\ [][NextWatch]_vars

(***************************************************************************)
(* Properties.                                                             *)
(***************************************************************************)
MergeOps == {"updatePublicationsFromSources", "updateJSONFiles"}

\* s is kept as the prefix of t: same records, same values, same positions
KeptAsPrefix(s, t) == Len(t) >= Len(s) /\ \A i \in Indices(s) : t[i] = s[i]

\* every record of t beyond the first n has an id no earlier record of t has
AppendedOnlyNewIds(n, t) ==
    \A j \in (n + 1)..Len(t) : ~HasId(SubSeq(t, 1, j - 1), t[j].id)

\* C1: a publication merge (BibTeX or HTML extraction) leaves every record
\* that was stored before it in place, at the same position and with all of
\* its field values, also when an incoming record carries a stored id with
\* other values.
MergeKeepsStoredPublications ==
    [][(lastOp'.op \in MergeOps /\ Readable(dataStore.publications))
        => /\ Readable(dataStore'.publications)
           /\ KeptAsPrefix(StoredPubs(dataStore.publications),
                           StoredPubs(dataStore'.publications))]_vars

\* C1 witness: a BibTeX merge wrote publications.json after a batch that held
\* both a stored id with other field values and a new id
MergeCollisionHappened ==
    /\ lastOp.op = "updatePublicationsFromSources"
    /\ {"collision", "newId"} \subseteq lastOp.flags
    /\ "publications" \in lastOp.wrote

\* C2: a merge never duplicates a record: pairwise-distinct ids stay
\* pairwise distinct in publications and in news, whatever the batch holds,
\* a record is appended only when no record before it has its id, and the
\* same BibTeX batch merged a second time changes no record.
MergeNeverDuplicates ==
    [][lastOp'.op \in MergeOps
        => /\ (Readable(dataStore.publications)
                 /\ DistinctIds(StoredPubs(dataStore.publications)))
              => DistinctIds(StoredPubs(dataStore'.publications))
           /\ (Readable(dataStore.news) /\ DistinctIds(StoredNews(dataStore.news)))
              => DistinctIds(StoredNews(dataStore'.news))
           /\ AppendedOnlyNewIds(Len(StoredPubs(dataStore.publications)),
                                 StoredPubs(dataStore'.publications))
           /\ AppendedOnlyNewIds(Len(StoredNews(dataStore.news)),
                                 StoredNews(dataStore'.news))
           /\ \A bib \in BibFiles :
                LET once == updatePublicationsFromSources(dataStore, bib).store
                    twice == updatePublicationsFromSources(once, bib).store
                IN StoredPubs(twice.publications) = StoredPubs(once.publications)]_vars

\* C2 witness: a BibTeX merge wrote publications.json after a batch in which
\* two entries carried the same new id, and the stored ids are distinct
MergeOfRepeatedIdHappened ==
    /\ lastOp.op = "updatePublicationsFromSources"
    /\ "batchRepeat" \in lastOp.flags
    /\ "publications" \in lastOp.wrote
    /\ DistinctIds(StoredPubs(dataStore.publications))

\* C5 (as claimed): in every reachable state the ids of the stored
\* publications are pairwise distinct, and so are those of the stored news
StoredIdsAlwaysDistinct ==
    /\ Readable(dataStore.publications)
         => DistinctIds(StoredPubs(dataStore.publications))
    /\ Readable(dataStore.news) => DistinctIds(StoredNews(dataStore.news))

\* C3 (as claimed): after updateJSONFiles every platform that had a
\* non-empty URL in the stored profile still has exactly that URL, whatever
\* the extraction found for it
SocialLinksNeverReplaced ==
    [][(lastOp'.op = "updateJSONFiles" /\ Readable(dataStore.personal))
        => \A k \in DOMAIN dataStore.personal.doc.social :
              ~FalsyStr(dataStore.personal.doc.social[k])
              => /\ k \in DOMAIN dataStore'.personal.doc.social
                 /\ dataStore'.personal.doc.social[k]
                      = dataStore.personal.doc.social[k]]_vars

InstitutionFields == {"name", "url", "department", "departmentUrl"}

\* C4 (as claimed): after updateJSONFiles the stored name, title and the
\* four institution fields equal their values before it whenever those
\* values were non-empty
CuratedFieldsNeverOverwritten ==
    [][(lastOp'.op = "updateJSONFiles" /\ Readable(dataStore.personal))
        => /\ ~FalsyStr(dataStore.personal.doc.name)
              => dataStore'.personal.doc.name = dataStore.personal.doc.name
           /\ ~FalsyStr(dataStore.personal.doc.title)
              => dataStore'.personal.doc.title = dataStore.personal.doc.title
           /\ \A f \in InstitutionFields :
                ~FalsyStr(dataStore.personal.doc.institution[f])
                => dataStore'.personal.doc.institution[f]
                     = dataStore.personal.doc.institution[f]]_vars

StoreOps ==
    {"updatePublicationsFromSources", "generateAcademicMetrics", "addPublication",
     "addNewsItem", "editPersonalInfo", "addResource", "updateJSONFiles"}

\* C6: a handler that writes the Data Store never writes a document it
\* could not read or parse: the file is not among those it wrote and is
\* what it was before; and when the BibTeX source cannot be read the update
\* writes nothing at all.
ParseFailureWritesNothing ==
    [][lastOp'.op \in StoreOps
        => /\ \A d \in DOMAIN dataStore :
                ~Readable(dataStore[d])
                => d \notin lastOp'.wrote /\ dataStore'[d] = dataStore[d]
           /\ "noBibtex" \in lastOp'.flags
                => lastOp'.wrote = {} /\ dataStore' = dataStore]_vars

\* C6 witness: addPublication ran on a publications.json that cannot be
\* parsed and wrote nothing, after an earlier handler had written the store
UnreadableDocumentLeftAlone ==
    /\ lastOp.op = "addPublication"
    /\ dataStore.publications.status = "malformed"
    /\ lastOp.wrote = {}
    /\ dataStore.news.doc.last_updated = Today

\* C7 (as claimed): a failure on one document does not stop the processing
\* of the independent ones: updateJSONFiles still merges publications and
\* news when personal.json is malformed, runAcademicIntegration still runs
\* metrics, validation and document generation when the publications update
\* fails, and generateContent still writes the sitemap, which depends on no
\* document, when a document fails to load
FailuresAreIsolated ==
    [][/\ (lastOp'.op = "updateJSONFiles"
            /\ dataStore.personal.status = "malformed"
            /\ Readable(dataStore.publications) /\ Readable(dataStore.news))
          => {"publications", "news"} \subseteq lastOp'.wrote
       /\ (lastOp'.op = "runAcademicIntegration" /\ lastOp'.threw)
          => {"generateAcademicMetrics", "validateAcademicData",
              "generateAcademicDocuments"} \subseteq lastOp'.flags
       /\ (lastOp'.op = "generateContent"
            /\ \E d \in DOMAIN dataStore : ~Readable(dataStore[d]))
          => "sitemap.xml" \in lastOp'.wrote]_vars

\* C8: validateAcademicData leaves the five stored documents and every
\* generated artifact as they were, whatever it returns.
ValidationChangesNothing ==
    [][lastOp'.op = "validateAcademicData"
        => dataStore' = dataStore /\ generated' = generated]_vars

\* C8 witness: the validator returned several issues over a store whose
\* artifacts had been generated
ValidatedWithArtifactsPresent ==
    /\ lastOp.op = "validateAcademicData"
    /\ Len(lastOp.issues) >= 2
    /\ generated["sitemap.xml"] # Absent
    /\ generated["CV_Generated.tex"] # Absent

\* the issues of one kind in the sequence returned
IssuesOfKind(issues, kind) == {i \in Indices(issues) : issues[i].kind = kind}

\* two publications carry titles and the titles are equal ignoring case
ShareTitleIgnoringCase(pubs) ==
    \E i, j \in Indices(pubs) :
        /\ i # j
        /\ pubs[i].title \notin {Undefined, Null}
        /\ pubs[j].title \notin {Undefined, Null}
        /\ ToLowerCase(pubs[i].title) = ToLowerCase(pubs[j].title)

Validated ==
    /\ lastOp.op = "validateAcademicData"
    /\ Readable(dataStore.personal)
    /\ Readable(dataStore.publications)

\* C9 (as claimed): every rule is applied to the whole collection: each
\* publication without a title or with no authors yields a required-field
\* issue, each bad DOI and bad year yields its issue, and the duplicate-title
\* check still reports when such a publication is present
EveryRuleApplied ==
    Validated
    => LET pubs == StoredPubs(dataStore.publications)
           issues == Range(lastOp.issues)
       IN /\ \A i \in Indices(pubs) :
                /\ (FalsyStr(pubs[i].title) \/ pubs[i].authors = AuthorsUndefined
                      \/ pubs[i].authors = <<>>)
                   => Issue("required", i, <<>>) \in issues
                /\ (~FalsyStr(pubs[i].doi) /\ ~StartsWith10(pubs[i].doi))
                   => Issue("doi", i, <<>>) \in issues
                /\ (FalsyNum(pubs[i].year) \/ pubs[i].year < 1900
                      \/ pubs[i].year > CurrentYear + 2)
                   => Issue("year", i, <<>>) \in issues
          /\ ShareTitleIgnoringCase(pubs)
             => IssuesOfKind(lastOp.issues, "duplicate") # {}

\* C10 (as claimed): a collection holding two titles equal ignoring case
\* yields exactly one duplicate-title issue, and a collection whose titles
\* are pairwise distinct ignoring case yields none
OneDuplicateIssue ==
    Validated
    => LET pubs == StoredPubs(dataStore.publications)
           n == Cardinality(IssuesOfKind(lastOp.issues, "duplicate"))
       IN IF ShareTitleIgnoringCase(pubs) THEN n = 1 ELSE n = 0

\* the number of issues of one kind returned for publication number index
IssueCount(issues, kind, index) ==
    Cardinality({k \in Indices(issues) : issues[k] = Issue(kind, index, <<>>)})

\* C11: when both documents are read, the validator returns exactly one
\* DOI-format issue for each publication whose doi is present and does not
\* start with '10.', and none for a publication whose doi is absent, null,
\* empty or starts with '10.'.
DoiRule ==
    Validated
    => \A i \in Indices(StoredPubs(dataStore.publications)) :
          LET doi == StoredPubs(dataStore.publications)[i].doi
          IN IssueCount(lastOp.issues, "doi", i)
               = IF doi \in {Undefined, Null, ""} \/ StartsWith10(doi) THEN 0 ELSE 1

\* C11 witness: a validated collection holds a publication without authors
\* whose doi is 'abc', one whose doi key is absent and one whose doi is empty
DoiRuleExercised ==
    /\ Validated
    /\ IssueCount(lastOp.issues, "doi", 1) = 1
    /\ LET pubs == StoredPubs(dataStore.publications)
       IN /\ Len(pubs) = 3
          /\ pubs[1].doi = "abc" /\ pubs[1].authors = AuthorsUndefined
          /\ pubs[2].doi = Undefined
          /\ pubs[3].doi = ""

\* C12: when both documents are read, the validator returns exactly one
\* year-range issue for each publication whose year is missing, below 1900
\* or above the current year plus 2, and none for a year from 1900 to the
\* current year plus 2, both included.
YearRule ==
    Validated
    => \A i \in Indices(StoredPubs(dataStore.publications)) :
          LET year == StoredPubs(dataStore.publications)[i].year
          IN IssueCount(lastOp.issues, "year", i)
               = IF year \in 1900..(CurrentYear + 2) THEN 0 ELSE 1

\* C12 witness: a validated collection holds the years 1900, current + 2 and
\* current + 3, and only the last yields a year issue
YearRuleExercised ==
    /\ Validated
    /\ LET pubs == StoredPubs(dataStore.publications)
       IN /\ Len(pubs) = 3
          /\ pubs[1].year = 1900
          /\ pubs[2].year = CurrentYear + 2
          /\ pubs[3].year = CurrentYear + 3
    /\ IssueCount(lastOp.issues, "year", 1) = 0
    /\ IssueCount(lastOp.issues, "year", 2) = 0
    /\ IssueCount(lastOp.issues, "year", 3) = 1

RECURSIVE SumOf(_, _)
\* the sum of the counts of a map over the keys given
SumOf(counts, keys) ==
    IF keys = {} THEN 0
    ELSE LET k == CHOOSE x \in keys : TRUE
         IN counts[k] + SumOf(counts, keys \ {k})

\* counts maps exactly the values field takes in pubs to their numbers
ExactCounts(counts, pubs, field) ==
    /\ DOMAIN counts = {pubs[i][field] : i \in Indices(pubs)}
    /\ \A v \in DOMAIN counts :
          counts[v] = Cardinality({i \in Indices(pubs) : pubs[i][field] = v})
    /\ SumOf(counts, DOMAIN counts) = Len(pubs)

\* latest is null when nothing is published, else a published publication
\* whose year no published publication with a year exceeds (a null year,
\* which the editor stores for a year text that is no number, counts as 0)
LatestIsMaximal(latest, pubs) ==
    LET published == {i \in Indices(pubs) : pubs[i].status = "published"}
        YearOf(p) == IF p.year = YearNull THEN 0 ELSE p.year
    IN  IF published = {} THEN latest = <<>>
        ELSE /\ Len(latest) = 1
             /\ \E i \in published : pubs[i] = latest[1]
             /\ \A i \in published : YearOf(latest[1]) >= YearOf(pubs[i])

MetricsKeys ==
    {"total_publications", "publications_by_year", "publications_by_status",
     "publications_by_type", "latest_publication", "collaboration_network",
     "last_updated"}

\* C14: a metrics run over a readable publications.json keeps every
\* statistics key it does not compute at its value, and leaves the
\* publications sequence and every other top-level field of the document as
\* they were.
MetricsChangeOnlyComputedKeys ==
    [][(lastOp'.op = "generateAcademicMetrics" /\ Readable(dataStore.publications))
        => LET before == dataStore.publications.doc
               after == dataStore'.publications.doc
           IN /\ DOMAIN after = DOMAIN before
              /\ \A k \in DOMAIN before \ {"statistics"} : after[k] = before[k]
              /\ \A k \in DOMAIN before.statistics \ MetricsKeys :
                    /\ k \in DOMAIN after.statistics
                    /\ after.statistics[k] = before.statistics[k]]_vars

\* C14 witness: a metrics run wrote a document that holds publications, the
\* hand-kept h_index and the categories field
MetricsKeptOtherKeys ==
    /\ lastOp.op = "generateAcademicMetrics"
    /\ "publications" \in lastOp.wrote
    /\ Len(StoredPubs(dataStore.publications)) >= 2
    /\ "categories" \in DOMAIN dataStore.publications.doc
    /\ dataStore.publications.doc.statistics.h_index = "12"
    /\ "publications_by_year" \in DOMAIN dataStore.publications.doc.statistics

Generators == {"generateContent", "generateAcademicDocuments"}

\* C15 (as claimed): a generator run again on the same documents yields
\* byte-identical artifact texts: every text artifact written by two
\* consecutive runs of the same generator over an unchanged Data Store is
\* the same after the second run as after the first
RegenerationIsIdentical ==
    [][(/\ lastOp'.op \in Generators
        /\ lastOp.op = lastOp'.op
        /\ dataStore' = dataStore)
        => \A a \in (lastOp.wrote \cap lastOp'.wrote) \ {"CV_Generated.pdf"} :
              generated'[a] = generated[a]]_vars

RECURSIVE OwnValue(_, _)
\* the value a dotted path names in a record: the field of that name at
\* every depth, or undefined when a field or an intermediate object is missing
OwnValue(record, path) ==
    IF path = <<>> THEN record
    ELSE IF record.kind = "object" /\ Head(path) \in DOMAIN record.fields
    THEN OwnValue(record.fields[Head(path)], Tail(path))
    ELSE JsUndefined

\* C16 (as claimed): renderTemplate never fails; a placeholder whose path
\* names a defined value of the record is replaced by that value, a
\* placeholder whose path names no field (at any depth) stays in the output
\* literally, and the text outside placeholders stays as it is
TemplateSubstitution ==
    lastOp.op = "renderTemplate"
    => /\ ~lastOp.threw
       /\ output
            = Join([i \in Indices(input.template) |->
                      LET piece == input.template[i]
                          value == OwnValue(input.data, piece.path)
                      IN IF piece.placeholder /\ value.kind # "undefined"
                         THEN value.text ELSE piece.text], "")

\* the <loc> values of the fixed page list, in list order
FixedLocs ==
    <<"https://romankorol.com/", "https://romankorol.com/research.html",
      "https://romankorol.com/news.html", "https://romankorol.com/learn.html",
      "https://romankorol.com/activities.html">>

\* C17: a generated sitemap holds exactly 5 <url> entries, one per page of
\* the fixed page list and in list order, and every <loc> is the configured
\* base URL followed by the page
SitemapListsFixedPages ==
    generated["sitemap.xml"] # Absent
    => /\ Len(SitemapPages) = 5
       /\ \A i \in Indices(SitemapPages) :
             FixedLocs[i] = BaseUrl \o "/" \o SitemapPages[i].url
       /\ \E day \in {FirstDay, SecondDay} :
             generated["sitemap.xml"]
               = SitemapDocument([i \in 1..5 |->
                     [loc |-> FixedLocs[i],
                      changefreq |-> SitemapPages[i].changefreq,
                      priority |-> SitemapPages[i].priority,
                      lastmod |-> day]])

\* generateContent has just written the sitemap
SitemapWritten ==
    /\ lastOp.op = "generateContent"
    /\ "sitemap.xml" \in lastOp.wrote
    /\ generated["sitemap.xml"] # Absent

\* the key of written entry i is the key of no other entry of the file
KeyOnce(entries, i) ==
    \A j \in Indices(entries) : entries[j].key = entries[i].key => j = i

\* C18 (as claimed): an @article entry written with a title and a year but
\* no author, on one line or on several, yields one candidate publication
\* with the entry key as id, authors = [] and the year as an integer; an
\* entry of another type yields no publication
BibtexExtractionWithDefaults ==
    (lastOp.op = "parseBibtexFile" /\ input.status = "ok")
    => /\ output.parsed
       /\ \A i \in Indices(input.entries) :
             LET e == input.entries[i]
                 found == {k \in Indices(output.publications) :
                              output.publications[k].id = e.key}
             IN KeyOnce(input.entries, i)
                => /\ (/\ ToLowerType(e.type) = "article"
                       /\ ~FalsyStr(e.title)
                       /\ e.author = Undefined
                       /\ ~FalsyNum(ParseInt(e.year)))
                      => /\ Cardinality(found) = 1
                         /\ \A k \in found :
                               /\ output.publications[k].authors = <<>>
                               /\ output.publications[k].year
                                    = ParseInt(e.year)
                   /\ ToLowerType(e.type) # "article" => found = {}

\* C19 (as claimed): loading what was saved yields the document that was
\* passed to save
SaveLoadRoundTrip ==
    lastOp.op = "saveData" => output = input

\* C20 (as claimed): no handler holds a document across a suspension point:
\* when a handler overwrites a file, the file still holds what the handler
\* read, so no write of another writer falls between its read and its write
NoWriteBetweenReadAndSave ==
    [][(/\ editor.pc \notin {"menu", "continue"}
        /\ editor'.pc = "continue"
        /\ editor.file \in lastOp'.wrote)
        => dataStore[editor.file] = editor.read]_vars

\* C21: in the full academic run, whatever issues the validation returned,
\* generateAcademicDocuments is invoked after it and the run completes; the
\* documents step does what it does on the same store without issues
IssuesNeverBlockRendering ==
    (lastOp.op = "runAcademicIntegration"
     /\ "validateAcademicData" \in lastOp.flags)
    => /\ "generateAcademicDocuments" \in lastOp.flags
       /\ ~lastOp.threw
       /\ (/\ Readable(dataStore.personal)
           /\ Readable(dataStore.publications)
           /\ ~LatexCVThrows(dataStore.publications.doc))
          => "CV_Generated.tex" \in lastOp.wrote

\* a full run whose validation returned several issues wrote the CV
RenderedDespiteIssues ==
    /\ lastOp.op = "runAcademicIntegration"
    /\ Len(lastOp.issues) >= 2
    /\ "CV_Generated.tex" \in lastOp.wrote
    /\ generated["CV_Generated.tex"] # Absent

\* the documents generateAcademicDocuments reads load and generateLatexCV
\* builds a CV from them
CVCanBeBuilt ==
    /\ Readable(dataStore.personal)
    /\ Readable(dataStore.publications)
    /\ ~LatexCVThrows(dataStore.publications.doc)

\* C22: without pdflatex, generateAcademicDocuments raises no error, leaves
\* the Data Store as it is, creates no PDF, and still writes CV_Generated.tex
\* from the current personal and publications documents
MissingToolchainIsSoft ==
    [][(/\ lastOp'.op = "generateAcademicDocuments"
        /\ "pdflatexAbsent" \in lastOp'.flags)
        => /\ ~lastOp'.threw
           /\ dataStore' = dataStore
           /\ generated'["CV_Generated.pdf"] = generated["CV_Generated.pdf"]
           /\ "CV_Generated.pdf" \notin lastOp'.wrote
           /\ CVCanBeBuilt
              => /\ "CV_Generated.tex" \in lastOp'.wrote
                 /\ generated'["CV_Generated.tex"]
                      = generateLatexCV(dataStore.personal.doc,
                                        dataStore.publications.doc)]_vars

\* the CV was written without pdflatex and no PDF exists
TexWithoutToolchain ==
    /\ lastOp.op = "generateAcademicDocuments"
    /\ "pdflatexAbsent" \in lastOp.flags
    /\ "CV_Generated.tex" \in lastOp.wrote
    /\ generated["CV_Generated.tex"] # Absent
    /\ generated["CV_Generated.pdf"] = Absent

\* the order the toggle is documented to follow
ThemeOrder == <<"light", "dark", "auto">>

\* a stored value outside the three themes counts as auto
AsTheme(value) == IF value \in THEMES THEN value ELSE "auto"

\* the theme i places after theme t in ThemeOrder, cyclically
After(t, i) ==
    LET k == CHOOSE j \in Indices(ThemeOrder) : ThemeOrder[j] = t
    IN ThemeOrder[((k - 1 + i) % Len(ThemeOrder)) + 1]

\* C23: with localStorage working, each cycleTheme call saves and applies
\* the theme after the saved one in Light -> Dark -> Auto -> Light, a saved
\* value outside the three counting as Auto; three calls in a row apply each
\* theme once and end on the starting theme
ToggleCyclesInOrder ==
    (lastOp.op = "cycleTheme" /\ browser.storage = "available")
    => /\ \A i \in Indices(browser.trail) :
             browser.trail[i] = After(AsTheme(browser.origin), i)
       /\ browser.saved = browser.trail[Len(browser.trail)]
       /\ browser.applied = browser.saved
       /\ Len(browser.trail) = Len(ThemeOrder)
          => /\ browser.applied = AsTheme(browser.origin)
             /\ Range(browser.trail) = THEMES

\* three cycleTheme calls in a row, starting from a stored value that is
\* none of the three themes
CycledThreeTimes ==
    /\ lastOp.op = "cycleTheme"
    /\ browser.storage = "available"
    /\ browser.origin = "sepia"
    /\ Len(browser.trail) = Len(ThemeOrder)

\* C24 (as claimed): when every localStorage access throws, no theme
\* operation raises, the preference reads as Auto, and successive
\* cycleTheme calls keep moving the applied theme through the three themes
StorageFailureKeepsToggleWorking ==
    browser.storage = "throws"
    => /\ ~lastOp.threw
       /\ getSavedTheme(browser) = "auto"
       /\ (lastOp.op = "cycleTheme" /\ Len(browser.trail) >= 2)
          => browser.trail[Len(browser.trail)]
               = After(browser.trail[Len(browser.trail) - 1], 1)

\* C29: with localStorage working, after initialisation and any handlers,
\* the theme last applied is the saved preference getTheme returns, a
\* preference among the three themes stays among them, data-theme is absent
\* exactly for auto and otherwise equals the theme, setTheme with another
\* value changes nothing, and a system change applies the theme exactly when
\* the preference is auto
ThemeStateAgrees ==
    [][(browser'.storage = "available" /\ browser'.ready)
        => /\ browser'.applied = getSavedTheme(browser')
           /\ (browser.saved \in THEMES => browser'.saved \in THEMES)
           /\ browser'.dataTheme
                = IF browser'.applied = "auto" THEN NoAttribute
                  ELSE browser'.applied
           /\ (lastOp'.op = "setTheme" /\ "valid" \notin lastOp'.flags)
              => /\ browser'.saved = browser.saved
                 /\ browser'.applied = browser.applied
                 /\ browser'.dataTheme = browser.dataTheme
                 /\ browser'.odd = browser.odd
           /\ lastOp'.op = "systemThemeChange"
              => ((browser'.odd # browser.odd)
                  <=> getSavedTheme(browser) = "auto")]_vars

\* setTheme was called with a value outside the three themes on a page
\* whose dark theme is applied
InvalidThemeRejected ==
    /\ lastOp.op = "setTheme"
    /\ "valid" \notin lastOp.flags
    /\ browser.storage = "available"
    /\ browser.applied = "dark"
    /\ browser.dataTheme = "dark"

\* C25: a full academic run that its first step does not end runs the
\* merge, the metrics, the validation and the document generation, each on
\* the store the steps before it left: the statistics count the merged
\* publications, the issues are those of the merged store, and the CV that
\* is written lists the merged publications
PipelineStepsSeeEarlierWrites ==
    [][(/\ lastOp'.op = "runAcademicIntegration"
        /\ ~lastOp'.threw
        /\ Readable(dataStore'.publications))
        => LET doc == dataStore'.publications.doc
           IN /\ {"updatePublicationsFromSources", "generateAcademicMetrics",
                  "validateAcademicData", "generateAcademicDocuments"}
                   \subseteq lastOp'.flags
              /\ doc.statistics.total_publications = Len(doc.publications)
              /\ ExactCounts(doc.statistics.publications_by_year,
                             doc.publications, "year")
              /\ lastOp'.issues = validateAcademicData(dataStore')
              /\ "CV_Generated.tex" \in lastOp'.wrote
                 => generated'["CV_Generated.tex"]
                      = generateLatexCV(dataStore'.personal.doc, doc)]_vars

\* a full run merged a publication into publications.json and wrote the CV
MergedThenRendered ==
    /\ lastOp.op = "runAcademicIntegration"
    /\ {"publications", "CV_Generated.tex"} \subseteq lastOp.wrote
    /\ "noBibtex" \notin lastOp.flags
    /\ HasId(StoredPubs(dataStore.publications), "k1")
    /\ dataStore.publications.doc.statistics.total_publications = 1

\* C26: after an addPublication (resp. addNewsItem) that wrote its document,
\* the record built from the answers is the first element of the stored
\* collection, which is one longer, and the records stored before follow it
\* in their order with their values
EditorPrepends ==
    [][/\ (lastOp'.op = "addPublication" /\ "publications" \in lastOp'.wrote)
          => LET before == StoredPubs(dataStore.publications)
                 after == StoredPubs(dataStore'.publications)
             IN /\ Len(after) = Len(before) + 1
                /\ \E a \in StoreAnswers : after[1] = JsonPub(EditorPub(a))
                /\ Tail(after) = before
       /\ (lastOp'.op = "addNewsItem" /\ "news" \in lastOp'.wrote)
          => LET before == StoredNews(dataStore.news)
                 after == StoredNews(dataStore'.news)
             IN /\ Len(after) = Len(before) + 1
                /\ \E a \in StoreNewsAnswers : after[1] = EditorNewsItem(a)
                /\ Tail(after) = before]_vars

\* the editor added a publication in front of two stored ones
PrependedToStoredRecords ==
    /\ lastOp.op = "addPublication"
    /\ "publications" \in lastOp.wrote
    /\ Len(StoredPubs(dataStore.publications)) = 3
    /\ StoredPubs(dataStore.publications)[1].id = "k5"
    /\ StoredPubs(dataStore.publications)[2] = CuratedPub1

\* the operations that write publications.json
PublicationWriters ==
    {"addPublication", "updatePublicationsFromSources", "updateJSONFiles",
     "generateAcademicMetrics"}

\* C28: after every write of publications.json by the editor, the BibTeX
\* merge, the HTML-extraction merge or the metrics run, in any order, the
\* stored statistics.total_publications is the length of the stored
\* publications sequence
TotalMatchesCollection ==
    (lastOp.op \in PublicationWriters /\ "publications" \in lastOp.wrote)
    => dataStore.publications.doc.statistics.total_publications
         = Len(dataStore.publications.doc.publications)

\* the HTML-extraction merge added publications and the total followed
TotalFollowedExtraction ==
    /\ lastOp.op = "updateJSONFiles"
    /\ "publications" \in lastOp.wrote
    /\ "newId" \in lastOp.flags
    /\ dataStore.publications.doc.statistics.total_publications >= 2

\* the positions at which a handler waits for an answer
HandlerPositions == {"editPersonalInfo", "addResource"}

\* C27: the editor is a sequential command loop.  A choice is taken only at
\* the menu; every choice but exit leads, through its handler if it has
\* prompts after its load, to the continue prompt and from there only to
\* the menu, whether the handler loaded and saved or not; documents change
\* only in a handler's step; an invalid choice changes no document; exit
\* closes the loop with no write, and nothing runs after it
SequentialCommandLoop ==
    [][/\ editor.pc # "closed"
       /\ editor.pc = "menu"
          => editor'.pc \in {"continue", "closed"} \cup HandlerPositions
       /\ editor.pc \in HandlerPositions => editor'.pc = "continue"
       /\ editor.pc = "continue"
          => editor'.pc = "menu" /\ dataStore' = dataStore /\ lastOp' = lastOp
       /\ editor'.pc = "continue"
          => lastOp'.op \notin {"exit", "none"}
       /\ editor'.pc = "closed"
          => /\ editor.pc = "menu"
             /\ lastOp'.op = "exit"
             /\ dataStore' = dataStore
       /\ (/\ editor.pc = "menu"
           /\ editor'.pc = "continue"
           /\ \/ lastOp'.op \in {"invalidChoice", "listContent", "backupContent"}
              \/ lastOp'.flags \cap {"loadFailed", "saveFailed"} # {})
          => dataStore' = dataStore]_vars

\* the menu is shown again after an invalid choice
MenuAfterInvalidChoice ==
    /\ lastOp.op = "invalidChoice"
    /\ editor = AtMenu

\* a regeneration leaves the Data Store as it is and raises no change
\* event: it only takes the delivered one off the pending events
RegenerationRaisesNoEvent ==
    [][(lastOp'.op = "watchChange" /\ watcher'.events # watcher.events)
       => /\ dataStore' = dataStore
          /\ watcher'.events \subseteq watcher.events]_vars

\* once every change event is delivered, the last regeneration read the
\* Data Store as it is now and wrote every artifact from it
LastRegenerationIsCurrent ==
    (watcher.watching /\ watcher.ran /\ watcher.events = {})
    => /\ watcher.read = <<dataStore>>
       /\ watcher.wrote = GeneratedFiles

\* C30: watch mode cannot re-trigger itself: a regeneration started by a
\* change event changes no data file and raises no change event, and once
\* the events of a burst of data-file changes are delivered, the last
\* regeneration reflects the final content of the data files
WatchSettlesOnFinalData ==
    RegenerationRaisesNoEvent /\ []LastRegenerationIsCurrent

====
